---------------------------- MODULE Spec2Model ----------------------------
(***************************************************************************)
(* A model of gcmd, a command-line client for Google Drive, Docs, Sheets   *)
(* and Tasks.                                                              *)
(*                                                                         *)
(*   - extract_file_id            (src/gcmd/utils.py)                      *)
(*   - list_sheets, export_sheet_as_csv, export_spreadsheet_as_csv         *)
(*                                (src/gcmd/sheets.py)                     *)
(*                                                                         *)
(* A Python str is a sequence of one-character strings, a bytes object a   *)
(* sequence of integers 0..255.  A function that returns or raises yields  *)
(* a record [kind |-> "returned", val |-> ...] or                          *)
(* [kind |-> "raised", exc |-> <exception class>, ...].                    *)
(***************************************************************************)
EXTENDS Integers, Sequences, FiniteSets, TLC

VARIABLES
    \* extract_file_id
    file_id_or_url,        \* the argument
    id_result,             \* what the call returned or raised
    \* export_sheet_as_csv
    pc,                    \* the position of the running code
    sheet_id,              \* the argument sheet_id (the sheet's gid)
    max_retries,           \* the argument max_retries
    attempt,               \* the loop variable of `for attempt in range(max_retries)`
    last_error,            \* the local last_error
    sheet_ret,             \* what export_sheet_as_csv returned or raised
    log,                   \* requests and sleeps since the current call (or loop
                           \* iteration of the batch export) began, oldest first
    \* export_spreadsheet_as_csv
    metadata,              \* what the Sheets service answers spreadsheets().get
    sheet_names,           \* the argument sheet_names: None, or kind "list" and its items
    delay_between_sheets,  \* the argument delay_between_sheets
    sheets,                \* the local sheets (list_sheets, then the filter)
    idx,                   \* the loop variable of `for idx, sheet in enumerate(sheets, 1)`
    exported_files,        \* the local exported_files
    files,                 \* the output directory: path -> text written
    history,               \* one summary per finished loop iteration, oldest first:
                           \* the sheet, whether its export returned and its file was
                           \* written, the delay slept before it, and what the code did
    batch_ret,             \* what export_spreadsheet_as_csv returned or raised
    \* list_document_tabs, export_tab_as_markdown
    document,              \* what the Docs service answers documents().get
    tab_id,                \* the argument tab_id of export_tab_as_markdown
    tabs_ret,              \* what list_document_tabs returned or raised
    tab_ret,               \* what export_tab_as_markdown returned or raised
    all_tabs_ret,          \* what export_all_tabs returned or raised
    \* the file names made of remote titles
    remote_title,          \* a title as the service reports it
    path_segment,          \* the path segment the code made of it, and where
    \* get_authenticated_credentials, revoke_credentials
    token_file,            \* token.json: absent, unreadable, or a stored credential
    client_secret,         \* credentials.json exists
    now,                   \* the clock credentials expire by
    issued,                \* how many access tokens the authorization server has issued
    auth_ret,              \* the last call: what it was, what it returned or raised
    auth_events,           \* what the last call did, in order
    \* main and the command handlers
    args,                  \* the parsed command line
    file_meta,             \* what the Drive service answers files().get
    cli_pc,                \* the position of the running handler
    performed,             \* the operations the handler has performed, in order, and
                           \* whether each raised
    printed,               \* what the handler has printed, in order, and where
    main_ret,              \* what main returned or raised
    credential_loads       \* how often load_credentials has been called

idVars == <<file_id_or_url, id_result>>
sheetVars == <<pc, sheet_id, max_retries, attempt, last_error, sheet_ret, log>>
batchVars == <<metadata, sheet_names, delay_between_sheets, sheets, idx,
               exported_files, files, history, batch_ret>>
sheetVars_but_pc == <<sheet_id, max_retries, attempt, last_error, sheet_ret, log>>
docVars == <<document, tab_id, tabs_ret, tab_ret, all_tabs_ret>>
nameVars == <<remote_title, path_segment>>
authVars == <<token_file, client_secret, now, issued, auth_ret, auth_events>>
cliVars == <<args, file_meta, cli_pc, performed, printed, main_ret>>
vars == <<idVars, sheetVars, batchVars, docVars, nameVars, authVars, cliVars,
          credential_loads>>

None == [kind |-> "none"]

(***************************************************************************)
(* Bounds of the model.                                                    *)
(***************************************************************************)
\* Longest identifier segment of an enumerated input of extract_file_id.
MaxIdLen == 2
\* Largest max_retries a direct call of export_sheet_as_csv is given.
MaxRetries == 5
\* Most sheets the spreadsheet service reports.
MaxSheets == 3

(***************************************************************************)
(* Strings.                                                                *)
(***************************************************************************)
Chars(s) == {s[i] : i \in 1..Len(s)}

LowerCase == {"a", "b", "c", "d", "e", "f", "g", "h", "i", "j", "k", "l", "m",
              "n", "o", "p", "q", "r", "s", "t", "u", "v", "w", "x", "y", "z"}
UpperCase == {"A", "B", "C", "D", "E", "F", "G", "H", "I", "J", "K", "L", "M",
              "N", "O", "P", "Q", "R", "S", "T", "U", "V", "W", "X", "Y", "Z"}
Digits == {"0", "1", "2", "3", "4", "5", "6", "7", "8", "9"}

\* What str.strip() removes (of the characters the inputs are made of).
Whitespace == {" ", "\t", "\n", "\r"}

RECURSIVE LStrip(_)
LStrip(s) ==
    IF s # <<>> /\ Head(s) \in Whitespace THEN LStrip(Tail(s)) ELSE s

RECURSIVE RStrip(_)
RStrip(s) ==
    IF s # <<>> /\ s[Len(s)] \in Whitespace
    THEN RStrip(SubSeq(s, 1, Len(s) - 1))
    ELSE s

StripNothing(s) == s

\* str.strip()
Strip(s) == RStrip(LStrip(s))

(***************************************************************************)
(* extract_file_id (src/gcmd/utils.py).                                    *)
(***************************************************************************)
\* The characters that make an input a URL rather than a bare identifier.
UrlChars == {"/", ":", "?", "#"}

\* The character class [a-zA-Z0-9-_] of the four patterns.
IdClass == LowerCase \cup UpperCase \cup Digits \cup {"-", "_"}

DocsDocument == <<"d", "o", "c", "s", ".", "g", "o", "o", "g", "l", "e", ".", "c", "o", "m", "/", "d", "o", "c", "u", "m", "e", "n", "t", "/", "d", "/">>
DocsSpreadsheets == <<"d", "o", "c", "s", ".", "g", "o", "o", "g", "l", "e", ".", "c", "o", "m", "/", "s", "p", "r", "e", "a", "d", "s", "h", "e", "e", "t", "s", "/", "d", "/">>
DocsPresentation == <<"d", "o", "c", "s", ".", "g", "o", "o", "g", "l", "e", ".", "c", "o", "m", "/", "p", "r", "e", "s", "e", "n", "t", "a", "t", "i", "o", "n", "/", "d", "/">>
DriveFile == <<"d", "r", "i", "v", "e", ".", "g", "o", "o", "g", "l", "e", ".", "c", "o", "m", "/", "f", "i", "l", "e", "/", "d", "/">>
DriveOpen == <<"d", "r", "i", "v", "e", ".", "g", "o", "o", "g", "l", "e", ".", "c", "o", "m", "/", "o", "p", "e", "n", "?", "i", "d", "=">>
DriveFolders == <<"d", "r", "i", "v", "e", ".", "g", "o", "o", "g", "l", "e", ".", "c", "o", "m", "/", "d", "r", "i", "v", "e", "/", "f", "o", "l", "d", "e", "r", "s", "/">>

\* The list `patterns`: each pattern is the literal text before its capture
\* group, the alternation (?:document|spreadsheets|presentation) written out
\* in the order the regular expression tries it.
patterns == <<
    <<DocsDocument, DocsSpreadsheets, DocsPresentation>>,
    <<DriveFile>>,
    <<DriveOpen>>,
    <<DriveFolders>> >>

\* The literal `lit` stands in s at position i.
LiteralAt(s, i, lit) ==
    /\ i + Len(lit) - 1 <= Len(s)
    /\ \A k \in 1..Len(lit) : s[i + k - 1] = lit[k]

FirstCharOnly(s, i) ==
    IF i <= Len(s) /\ s[i] \in IdClass THEN i ELSE i - 1

\* The greedy group ([a-zA-Z0-9-_]+) from position i: the last position of the
\* run of class characters that starts at i (i - 1 when s[i] is none).
RECURSIVE RunEnd(_, _)
RunEnd(s, i) ==
    IF i <= Len(s) /\ s[i] \in IdClass THEN RunEnd(s, i + 1) ELSE i - 1

\* The pattern tried at position i: the capture, or None.
RECURSIVE MatchAt(_, _, _, _)
MatchAt(pattern, s, i, alt) ==
    IF alt > Len(pattern) THEN None
    ELSE LET from == i + Len(pattern[alt])
         IN  IF LiteralAt(s, i, pattern[alt]) /\ RunEnd(s, from) >= from
             THEN [kind |-> "match", group1 |-> SubSeq(s, from, RunEnd(s, from))]
             ELSE MatchAt(pattern, s, i, alt + 1)

\* re.search(pattern, s), scanning from position i: the leftmost match.
RECURSIVE re_search(_, _, _)
re_search(pattern, s, i) ==
    IF i > Len(s) THEN None
    ELSE LET m == MatchAt(pattern, s, i, 1)
         IN  IF m # None THEN m ELSE re_search(pattern, s, i + 1)

\* The formats the ValueError message lists.
SupportedFormats == {"File ID", "Google Docs", "Google Sheets", "Google Slides",
                     "Google Drive"}

\* A single search for the alternation of the four patterns: the match that
\* starts leftmost in s, whichever pattern it belongs to.
RECURSIVE LeftmostOfAll(_, _)
LeftmostOfAll(s, p) ==
    IF p > Len(s)
    THEN [kind |-> "raised", exc |-> "ValueError", formats |-> SupportedFormats]
    ELSE LET here == {q \in 1..Len(patterns) : MatchAt(patterns[q], s, p, 1) # None}
         IN  IF here # {}
             THEN [kind |-> "returned",
                   val |-> MatchAt(patterns[CHOOSE q \in here : \A r \in here : q <= r],
                                   s, p, 1).group1]
             ELSE LeftmostOfAll(s, p + 1)

\* `for pattern in patterns: ... return match.group(1)`, then the raise.
RECURSIVE TryPatterns(_, _)
TryPatterns(s, p) ==
    IF p > Len(patterns)
    THEN [kind |-> "raised", exc |-> "ValueError", formats |-> SupportedFormats]
    ELSE LET match == re_search(patterns[p], s, 1)
         IN  IF match # None
             THEN [kind |-> "returned", val |-> match.group1]
             ELSE TryPatterns(s, p + 1)

extract_file_id(s) ==
    IF ~ \E char \in UrlChars : char \in Chars(s)
    THEN [kind |-> "returned", val |-> Strip(s)]
    ELSE TryPatterns(s, 1)

(***************************************************************************)
(* The inputs of extract_file_id: lead ++ core ++ id ++ tail.              *)
(***************************************************************************)
DocsForms == <<"d", "o", "c", "s", ".", "g", "o", "o", "g", "l", "e", ".", "c", "o", "m", "/", "f", "o", "r", "m", "s", "/", "d", "/">>
DriveFileNoD == <<"d", "r", "i", "v", "e", ".", "g", "o", "o", "g", "l", "e", ".", "c", "o", "m", "/", "f", "i", "l", "e", "/">>
Https == <<"h", "t", "t", "p", "s", ":", "/", "/">>
Edit == <<"/", "e", "d", "i", "t">>
Usp == <<"?", "u", "s", "p", "=", "x">>
SecondUrl == <<"&", "u", "=", "d", "o", "c", "s", ".", "g", "o", "o", "g", "l", "e", ".", "c", "o", "m", "/", "d", "o", "c", "u", "m", "e", "n", "t", "/", "d", "/", "q">>
SecondFile == <<"&", "f", "=", "d", "r", "i", "v", "e", ".", "g", "o", "o", "g", "l", "e", ".", "c", "o", "m", "/", "f", "i", "l", "e", "/", "d", "/", "r">>

SupportedShapes == {DocsDocument, DocsSpreadsheets, DocsPresentation,
                    DriveFile, DriveOpen, DriveFolders}

Leads == {<<>>, <<" ">>, <<"\t", "x", " ", "y">>, Https}
Cores == SupportedShapes \cup {<<>>, DocsForms, DriveFileNoD}
IdAlphabet == {"a", "Z", "7", "-", "_"}
Ids == UNION {[1..n -> IdAlphabet] : n \in 0..MaxIdLen}
Tails == {<<>>, <<" ">>, <<"!", "\n">>, Edit, Usp, SecondUrl, SecondFile}

Inputs == {lead \o core \o id \o tail :
              lead \in Leads, core \in Cores, id \in Ids, tail \in Tails}

IdIdle == file_id_or_url = <<>> /\ id_result = None

SheetIdle ==
    /\ pc = "idle" /\ sheet_id = 0 /\ max_retries = 0 /\ attempt = 0
    /\ last_error = None /\ sheet_ret = None /\ log = <<>>

BatchIdle ==
    /\ metadata = <<>> /\ sheet_names = None /\ delay_between_sheets = 0
    /\ sheets = <<>> /\ idx = 0 /\ exported_files = <<>> /\ files = <<>>
    /\ history = <<>> /\ batch_ret = None

DocIdle ==
    /\ document = <<>> /\ tab_id = <<>> /\ tabs_ret = None /\ tab_ret = None
    /\ all_tabs_ret = None

NameIdle == remote_title = <<>> /\ path_segment = None

AuthIdle ==
    /\ token_file = None /\ client_secret = FALSE /\ now = 0 /\ issued = 0
    /\ auth_ret = None /\ auth_events = <<>>

CliIdle ==
    /\ args = None /\ file_meta = <<>> /\ cli_pc = "idle" /\ performed = <<>>
    /\ printed = <<>> /\ main_ret = None

NoLoads == credential_loads = 0

IdInit ==
    /\ file_id_or_url \in Inputs
    /\ id_result = None
    /\ SheetIdle /\ BatchIdle /\ DocIdle /\ NameIdle /\ AuthIdle /\ CliIdle /\ NoLoads

\* One call of extract_file_id.
ExtractFileId ==
    /\ id_result = None
    /\ id_result' = extract_file_id(file_id_or_url)
    /\ UNCHANGED <<file_id_or_url, sheetVars, batchVars, docVars, nameVars, authVars,
                   cliVars, credential_loads>>

IdNext == ExtractFileId

SpecId == IdInit /\ [][IdNext]_vars

(***************************************************************************)
(* export_sheet_as_csv (src/gcmd/sheets.py).                               *)
(***************************************************************************)
\* The default of the parameter max_retries.
DefaultMaxRetries == 5

RangeInclusive(n) == 0..n

\* range(n)
range(n) == 0..(n - 1)

\* bytes.decode('utf-8') for bytes below 224 (one- and two-byte forms): the
\* code points, or ok = FALSE where Python raises UnicodeDecodeError.
RECURSIVE Utf8Decode(_)
Utf8Decode(b) ==
    IF b = <<>> THEN [ok |-> TRUE, text |-> <<>>]
    ELSE IF b[1] < 128
    THEN LET rest == Utf8Decode(Tail(b))
         IN  [ok |-> rest.ok, text |-> <<b[1]>> \o rest.text]
    ELSE IF b[1] \in 194..223 /\ Len(b) >= 2 /\ b[2] \in 128..191
    THEN LET rest == Utf8Decode(SubSeq(b, 3, Len(b)))
         IN  [ok |-> rest.ok,
              text |-> <<(b[1] - 192) * 64 + (b[2] - 128)>> \o rest.text]
    ELSE [ok |-> FALSE, text |-> <<>>]

\* content.decode('utf-8')
DecodeContent(b) == Utf8Decode(b)

LinearWait(i) == i + 1

\* wait_time = 2 ** attempt
wait_time(i) == 2 ^ i

\* The 2 ** attempt of the HttpError handler.
HandlerSleep(i) == 2 ^ i

AlwaysSleeps(i, n) == TRUE

\* `if attempt < max_retries - 1` of the HttpError handler.
HandlerSleeps(i, n) == i < n - 1

ExceptAnything(e) == TRUE

\* `except HttpError as e`
ExceptHttpError(e) == e.exc = "HttpError"

KeepFirstError(old, new) == IF old = None THEN new ELSE old

\* last_error = ...
AssignLastError(old, new) == new

RateLimited == [exc |-> "Exception", msg |-> "Rate limited (HTTP 429)"]

\* What http.request(url) can answer: a response with a status and a body,
\* or an exception.
ExportBodies == {<<65, 195, 169>>, <<65, 195>>}
OtherStatuses == {403, 500}
EndpointOutcomes ==
    {[t |-> "response", status |-> 200, content |-> b] : b \in ExportBodies}
    \cup {[t |-> "response", status |-> 429, content |-> <<>>]}
    \cup {[t |-> "response", status |-> st, content |-> <<>>] : st \in OtherStatuses}
    \cup {[t |-> "raise", exc |-> "HttpError"]}

\* What the statements of the try block raise on outcome o (None: nothing).
RaisedInTry(o) ==
    IF o.t = "raise" THEN [exc |-> o.exc]
    ELSE IF o.status = 200
    THEN IF DecodeContent(o.content).ok THEN None
         ELSE [exc |-> "UnicodeDecodeError"]
    ELSE IF o.status = 429 THEN None
    ELSE [exc |-> "Exception", msg |-> "Failed to export sheet: HTTP",
          status |-> o.status]

\* One pass of the loop body on outcome o: the sleeps it makes, last_error
\* after it, and what it returns or raises (None: the loop goes on).
TryBody(i, n, err, o) ==
    LET e == RaisedInTry(o)
    IN  IF e = None
        THEN IF o.status = 200
             THEN [sleeps |-> <<>>, err |-> err,
                   ret |-> [kind |-> "returned", val |-> DecodeContent(o.content).text]]
             ELSE [sleeps |-> <<wait_time(i)>>,
                   err |-> AssignLastError(err, RateLimited), ret |-> None]
        ELSE IF ExceptHttpError(e)
        THEN [sleeps |-> IF HandlerSleeps(i, n) THEN <<HandlerSleep(i)>> ELSE <<>>,
              err |-> AssignLastError(err, e), ret |-> None]
        ELSE [sleeps |-> <<>>, err |-> err,
              ret |-> [kind |-> "raised", exc |-> e.exc, error |-> e]]

RequestEvent(gid, i, o) == [ev |-> "request", gid |-> gid, attempt |-> i, outcome |-> o]
SleepEvent(secs, why) == [ev |-> "sleep", secs |-> secs, why |-> why]
BackoffSleeps(secs) == [k \in 1..Len(secs) |-> SleepEvent(secs[k], "backoff")]

\* service = get_drive_service(): the credentials are loaded and the client
\* is built, or the call raises.
GetDriveService ==
    /\ pc = "get_drive_service"
    /\ credential_loads' = credential_loads + 1
    /\ \E ok \in BOOLEAN :
          IF ok
          THEN /\ pc' = "for_attempt"
               /\ attempt' = 0
               /\ last_error' = None
               /\ sheet_ret' = sheet_ret
          ELSE /\ pc' = "sheet_done"
               /\ sheet_ret' = [kind |-> "raised", exc |-> "FileNotFoundError",
                                error |-> [exc |-> "FileNotFoundError"]]
               /\ UNCHANGED <<attempt, last_error>>
    /\ UNCHANGED <<sheet_id, max_retries, log, idVars, batchVars, docVars, nameVars,
                   authVars, cliVars>>

\* One iteration of `for attempt in range(max_retries)`: the request, what
\* follows the response, and the step to the next attempt.
Attempt ==
    /\ pc = "for_attempt"
    /\ attempt \in range(max_retries)
    /\ \E o \in EndpointOutcomes :
          LET body == TryBody(attempt, max_retries, last_error, o)
          IN  /\ log' = log \o <<RequestEvent(sheet_id, attempt, o)>>
                            \o BackoffSleeps(body.sleeps)
              /\ last_error' = body.err
              /\ sheet_ret' = body.ret
              /\ IF body.ret = None
                 THEN attempt' = attempt + 1 /\ pc' = pc
                 ELSE attempt' = attempt /\ pc' = "sheet_done"
    /\ UNCHANGED <<sheet_id, max_retries, idVars, batchVars, docVars, nameVars, authVars,
                   cliVars, credential_loads>>

\* The loop is over: raise Exception("Failed to export sheet as CSV after ...").
Exhausted ==
    /\ pc = "for_attempt"
    /\ attempt \notin range(max_retries)
    /\ sheet_ret' = [kind |-> "raised", exc |-> "Exception",
                     error |-> [exc |-> "Exception",
                                msg |-> "Failed to export sheet as CSV after",
                                attempts |-> max_retries,
                                last_error |-> last_error]]
    /\ pc' = "sheet_done"
    /\ UNCHANGED <<sheet_id, max_retries, attempt, last_error, log, idVars, batchVars,
                   docVars, nameVars, authVars, cliVars, credential_loads>>

\* A direct call export_sheet_as_csv(spreadsheet_id, sheet_id, max_retries).
SheetInit ==
    /\ pc = "get_drive_service"
    /\ sheet_id = 0
    /\ max_retries \in 0..MaxRetries
    /\ attempt = 0
    /\ last_error = None
    /\ sheet_ret = None
    /\ log = <<>>
    /\ IdIdle /\ BatchIdle /\ DocIdle /\ NameIdle /\ AuthIdle /\ CliIdle /\ NoLoads

SheetNext == GetDriveService \/ Attempt \/ Exhausted

SpecSheet == SheetInit /\ [][SheetNext]_vars

\* The call runs on: nothing but the function's own steps can stop it.
SpecSheetLive == SpecSheet /\ WF_vars(SheetNext)

(***************************************************************************)
(* list_sheets and export_spreadsheet_as_csv (src/gcmd/sheets.py).         *)
(***************************************************************************)
\* dict.get(key, default)
Get(d, key, default) == IF key \in DOMAIN d THEN d[key] ELSE default

Untitled == <<"U", "n", "t", "i", "t", "l", "e", "d">>

\* The dictionary list_sheets makes of one entry of metadata['sheets'].
SheetInfo(sheet) ==
    LET props == Get(sheet, "properties", <<>>)
    IN  [sheetId |-> Get(props, "sheetId", None),
         title |-> Get(props, "title", Untitled),
         index |-> Get(props, "index", 0)]

RECURSIVE InsertBeforeEqual(_, _)
InsertBeforeEqual(done, x) ==
    IF done = <<>> THEN <<x>>
    ELSE IF Head(done).index < x.index
    THEN <<Head(done)>> \o InsertBeforeEqual(Tail(done), x)
    ELSE <<x>> \o done

\* x put into the sorted list `done`, behind every element whose key is not
\* greater: sorted() is stable.
RECURSIVE InsertByIndex(_, _)
InsertByIndex(done, x) ==
    IF done = <<>> THEN <<x>>
    ELSE IF Head(done).index <= x.index
    THEN <<Head(done)>> \o InsertByIndex(Tail(done), x)
    ELSE <<x>> \o done

\* sorted(sheets, key=lambda x: x['index'])
RECURSIVE SortedByIndex(_, _)
SortedByIndex(done, rest) ==
    IF rest = <<>> THEN done
    ELSE SortedByIndex(InsertByIndex(done, Head(rest)), Tail(rest))

list_sheets(md) ==
    LET listed == Get(md, "sheets", <<>>)
    IN  SortedByIndex(<<>>, [k \in 1..Len(listed) |-> SheetInfo(listed[k])])

\* The characters of the class [<>:"/\\|?*].
UnsafeChars == {"<", ">", ":", "\"", "/", "\\", "|", "?", "*"}

SanitizeSlashOnly(title) ==
    [k \in 1..Len(title) |-> IF title[k] = "/" THEN "_" ELSE title[k]]

\* re.sub(r'[<>:"/\\|?*]', '_', title)
Sanitize(title) ==
    [k \in 1..Len(title) |-> IF title[k] \in UnsafeChars THEN "_" ELSE title[k]]

\* base / segment for a segment without a slash: pathlib drops an empty
\* segment and a segment ".".
JoinPath(base, segment) ==
    IF segment \in {<<>>, <<".">>} THEN base ELSE base \o <<"/">> \o segment

\* The argument output_dir.
output_dir == <<"o", "u", "t">>

DefaultSpreadsheetTitle == <<"s", "p", "r", "e", "a", "d", "s", "h", "e", "e", "t">>

\* output_path = base_path / safe_title
output_path(md) ==
    JoinPath(output_dir,
             Sanitize(Get(Get(md, "properties", <<>>), "title", DefaultSpreadsheetTitle)))

\* filepath = output_path / f"{safe_sheet_title}.csv"
filepath(md, sheet) ==
    JoinPath(output_path(md), Sanitize(sheet.title) \o <<".", "c", "s", "v">>)

\* [s for s in sheets if s['title'] in sheet_names]
TitleIn(list) ==
    SelectSeq(list, LAMBDA s : \E k \in 1..Len(sheet_names.items) :
                                   sheet_names.items[k] = s.title)

\* `if sheet_names:`: neither None nor an empty list.
Truthy(names) == names.kind = "list" /\ names.items # <<>>

DelayEachSheet(i, delay) == delay > 0

\* `if idx > 1 and delay_between_sheets > 0`
NeedsDelay(i, delay) == i > 1 /\ delay > 0

ExceptNothing(e) == FALSE

\* `except Exception as e`: every exception of the model is an Exception.
ExceptException(e) ==
    e.exc \in {"Exception", "HttpError", "UnicodeDecodeError", "ValueError",
               "OSError", "FileNotFoundError"}

\* The spreadsheets the service is asked about: up to MaxSheets sheets, the
\* p-th in the service's order with sheetId p and the p-th title, each with an
\* index of 0 or 1 or with none.
SpreadsheetTitle == <<"S", "?">>
SheetTitles == << <<"a", "/">>, <<"b">>, <<"a", ":">>, <<"c">> >>
TitleAt(p) == SheetTitles[((p - 1) % Len(SheetTitles)) + 1]
NoIndex == -1
IndexChoices == {NoIndex, 0, 1}
ServiceSheet(p, index) ==
    [properties |->
        IF index = NoIndex
        THEN [sheetId |-> p, title |-> TitleAt(p)]
        ELSE [sheetId |-> p, title |-> TitleAt(p), index |-> index]]
Spreadsheets ==
    {[properties |-> [title |-> SpreadsheetTitle],
      sheets |-> [p \in 1..n |-> ServiceSheet(p, ix[p])]] :
        <<n, ix>> \in UNION {{n} \X [1..n -> IndexChoices] : n \in 0..MaxSheets}}

\* The arguments sheet_names and delay_between_sheets of the calls: every
\* sheet with no delay and with one of 2 seconds, and two sheets by name with
\* a negative delay and with one of 2 seconds.
TwoNames == [kind |-> "list", items |-> << <<"b">>, <<"a", ":">> >>]
CallArguments == {<<None, 0>>, <<None, 2>>, <<TwoNames, -1>>, <<TwoNames, 2>>}

SetupLoadsOnce(setup) == 1

\* The calls of load_credentials up to where the setup stops:
\* get_spreadsheet_metadata acquires the Sheets service at line 131 and again
\* inside list_sheets at line 143.
LoadsOfSetup(setup) ==
    IF setup \in {"metadata_error", "mkdir_error"} THEN 1 ELSE 2

\* Lines 131 to 152: the metadata, the output directory, the sheets and the
\* filter. The remote calls and mkdir may raise.
BatchStart ==
    /\ pc = "batch_start"
    /\ \E setup \in {"ok", "metadata_error", "mkdir_error", "list_sheets_error"} :
          LET listed == list_sheets(metadata)
              chosen == IF Truthy(sheet_names) THEN TitleIn(listed) ELSE listed
          IN  /\ credential_loads' = credential_loads + LoadsOfSetup(setup)
              /\ IF setup # "ok"
                 THEN /\ batch_ret' = [kind |-> "raised",
                                       exc |-> IF setup = "mkdir_error"
                                               THEN "OSError" ELSE "Exception"]
                      /\ pc' = "batch_done"
                      /\ UNCHANGED <<sheets, idx, exported_files>>
                 ELSE IF Truthy(sheet_names) /\ chosen = <<>>
                 THEN /\ batch_ret' = [kind |-> "raised", exc |-> "Exception"]
                      /\ pc' = "batch_done"
                      /\ sheets' = chosen
                      /\ UNCHANGED <<idx, exported_files>>
                 ELSE /\ sheets' = chosen
                      /\ exported_files' = <<>>
                      /\ idx' = 1
                      /\ pc' = "for_sheet"
                      /\ batch_ret' = batch_ret
    /\ UNCHANGED <<metadata, sheet_names, delay_between_sheets, files, history,
                   sheet_id, max_retries, attempt, last_error, sheet_ret, log, idVars,
                   docVars, nameVars, authVars, cliVars>>

\* Lines 154 to 171: the next sheet, the delay before it and the call
\* export_sheet_as_csv(spreadsheet_id, sheet_id).
ForSheet ==
    /\ pc = "for_sheet"
    /\ idx <= Len(sheets)
    /\ log' = IF NeedsDelay(idx, delay_between_sheets)
              THEN <<SleepEvent(delay_between_sheets, "delay")>>
              ELSE <<>>
    /\ sheet_id' = sheets[idx].sheetId
    /\ max_retries' = DefaultMaxRetries
    /\ attempt' = 0
    /\ last_error' = None
    /\ sheet_ret' = None
    /\ pc' = "get_drive_service"
    /\ UNCHANGED <<idVars, batchVars, docVars, nameVars, authVars, cliVars, credential_loads>>

\* Lines 171 to 178 once export_sheet_as_csv is over: the file is written and
\* its path appended, or the exception is caught and the warning printed.
AfterExport ==
    /\ pc = "sheet_done"
    /\ \E write_ok \in (IF sheet_ret.kind = "returned" THEN BOOLEAN ELSE {FALSE}) :
          LET path == filepath(metadata, sheets[idx])
              e == IF sheet_ret.kind = "raised" THEN sheet_ret.error
                   ELSE [exc |-> "OSError"]
              summary(outcome) ==
                  [gid |-> sheet_id, title |-> sheets[idx].title,
                   succeeded |-> write_ok,
                   delays |-> SelectSeq(log, LAMBDA x : x.ev = "sleep" /\ x.why = "delay"),
                   outcome |-> outcome]
          IN  IF write_ok
              THEN /\ files' = [f \in DOMAIN files \cup {path} |->
                                   IF f = path THEN sheet_ret.val ELSE files[f]]
                   /\ exported_files' = Append(exported_files, path)
                   /\ history' = Append(history, summary("exported"))
                   /\ idx' = idx + 1
                   /\ pc' = "for_sheet"
                   /\ batch_ret' = batch_ret
              ELSE IF ExceptException(e)
              THEN /\ history' = Append(history, summary("warned"))
                   /\ idx' = idx + 1
                   /\ pc' = "for_sheet"
                   /\ UNCHANGED <<files, exported_files, batch_ret>>
              ELSE /\ history' = Append(history, summary("raised"))
                   /\ batch_ret' = [kind |-> "raised", exc |-> e.exc]
                   /\ pc' = "batch_done"
                   /\ UNCHANGED <<files, exported_files, idx>>
    \* The frame of export_sheet_as_csv is gone, and a new iteration begins.
    /\ sheet_id' = 0 /\ max_retries' = 0 /\ attempt' = 0
    /\ last_error' = None /\ sheet_ret' = None /\ log' = <<>>
    /\ UNCHANGED <<metadata, sheet_names, delay_between_sheets, sheets, idVars, docVars,
                   nameVars, authVars, cliVars, credential_loads>>

\* Line 180: return exported_files.
BatchReturn ==
    /\ pc = "for_sheet"
    /\ idx > Len(sheets)
    /\ batch_ret' = [kind |-> "returned", val |-> exported_files]
    /\ pc' = "batch_done"
    /\ UNCHANGED <<metadata, sheet_names, delay_between_sheets, sheets, idx,
                   exported_files, files, history, sheetVars_but_pc, idVars, docVars,
                   nameVars, authVars, cliVars, credential_loads>>

\* A call export_spreadsheet_as_csv(spreadsheet_id, output_dir, sheet_names,
\* delay_between_sheets).
BatchInit ==
    /\ pc = "batch_start"
    /\ metadata \in Spreadsheets
    /\ \E call \in CallArguments :
          sheet_names = call[1] /\ delay_between_sheets = call[2]
    /\ sheets = <<>> /\ idx = 0 /\ exported_files = <<>> /\ files = <<>>
    /\ history = <<>> /\ batch_ret = None
    /\ sheet_id = 0 /\ max_retries = 0 /\ attempt = 0
    /\ last_error = None /\ sheet_ret = None /\ log = <<>>
    /\ IdIdle /\ DocIdle /\ NameIdle /\ AuthIdle /\ CliIdle /\ NoLoads

BatchNext ==
    \/ BatchStart
    \/ ForSheet
    \/ GetDriveService
    \/ Attempt
    \/ Exhausted
    \/ AfterExport
    \/ BatchReturn

SpecBatch == BatchInit /\ [][BatchNext]_vars

(***************************************************************************)
(* list_document_tabs and export_tab_as_markdown                           *)
(* (src/gdrive_utils/docs.py).  A dict is a function on its keys; the      *)
(* empty dict is <<>>.                                                     *)
(***************************************************************************)
\* d.get(key) or otherwise, for a value that is a str when it is present.
GetOr(d, key, otherwise) ==
    IF key \in DOMAIN d /\ d[key] # <<>> THEN d[key] ELSE otherwise

DigitOf == <<"0", "1", "2", "3", "4", "5", "6", "7", "8", "9">>

\* str(n) for an int n >= 0
RECURSIVE str(_)
str(n) ==
    IF n < 10 THEN <<DigitOf[n + 1]>> ELSE str(n \div 10) \o <<DigitOf[(n % 10) + 1]>>

\* f'Tab {idx + 1}'
TabLabel(p) == <<"T", "a", "b", " ">> \o str(p + 1)

\* f'tab_{idx}'
FallbackTabId(p) == <<"t", "a", "b", "_">> \o str(p)

TitleSkipsTabProperties(tab, p) ==
    GetOr(tab, "title", GetOr(tab, "displayName", TabLabel(p)))

\* The title list_document_tabs gives the tab at 0-based position p (the loop's idx).
TabTitle(tab, p) ==
    LET tab_properties == Get(tab, "tabProperties", <<>>)
    IN  GetOr(tab_properties, "title",
        GetOr(tab_properties, "displayName",
        GetOr(tab, "title",
        GetOr(tab, "displayName", TabLabel(p)))))

\* The dictionary tab_info of the loop of list_document_tabs.
TabInfo(tab, p) ==
    LET tab_properties == Get(tab, "tabProperties", <<>>)
        tab_info == [tabId |-> GetOr(tab_properties, "tabId",
                                     Get(tab, "tabId", FallbackTabId(p))),
                     title |-> TabTitle(tab, p),
                     index |-> Get(tab_properties, "index", p)]
    IN  IF "childObjectId" \in DOMAIN tab
        THEN tab_info @@ [childObjectId |-> tab["childObjectId"]]
        ELSE tab_info

DefaultTabId == <<"d", "e", "f", "a", "u", "l", "t">>

NoDefaultTab(doc) ==
    [i \in 1..Len(Get(doc, "tabs", <<>>)) |-> TabInfo(Get(doc, "tabs", <<>>)[i], i - 1)]

\* list_document_tabs once get_document_details has returned doc.
TabsOf(doc) ==
    LET tabs == Get(doc, "tabs", <<>>)
    IN  IF tabs = <<>>
        THEN << [tabId |-> DefaultTabId,
                 title |-> Get(doc, "title", Untitled),
                 index |-> 0,
                 isDefault |-> TRUE] >>
        ELSE [i \in 1..Len(tabs) |-> TabInfo(tabs[i], i - 1)]

\* What get_document_details does with the outcome of its request.
get_document_details(doc, outcome) ==
    CASE outcome = "ok" -> [kind |-> "returned", val |-> doc]
      [] outcome = "HttpError" ->
            [kind |-> "raised", exc |-> "Exception",
             msg |-> "Failed to get document details"]
      [] outcome = "FileNotFoundError" ->
            [kind |-> "raised", exc |-> "FileNotFoundError", msg |-> "setup"]

list_document_tabs(doc, outcome) ==
    LET details == get_document_details(doc, outcome)
    IN  IF details.kind = "raised" THEN details
        ELSE [kind |-> "returned", val |-> TabsOf(details.val)]

RECURSIVE Flatten(_)
Flatten(lists) ==
    IF lists = <<>> THEN <<>> ELSE Head(lists) \o Flatten(Tail(lists))

\* extract_text with the cells of a row taken right to left.
RECURSIVE CellsRightToLeft(_)
CellsRightToLeft(elements) ==
    Flatten([k \in 1..Len(elements) |->
        LET element == elements[k]
        IN  IF "textRun" \in DOMAIN element
            THEN << Get(element["textRun"], "content", <<>>) >>
            ELSE IF "paragraph" \in DOMAIN element
            THEN CellsRightToLeft(Get(element["paragraph"], "elements", <<>>))
            ELSE IF "table" \in DOMAIN element
            THEN LET rows == Get(element["table"], "tableRows", <<>>)
                 IN  Flatten([r \in 1..Len(rows) |->
                         LET cells == Get(rows[r], "tableCells", <<>>)
                         IN  Flatten([c \in 1..Len(cells) |->
                                 CellsRightToLeft(
                                     Get(cells[Len(cells) + 1 - c], "content", <<>>))])])
            ELSE <<>>])

\* The nested function extract_text of export_tab_as_markdown: the list of
\* the strings it collects, in the order it appends them.
RECURSIVE extract_text(_)
extract_text(elements) ==
    Flatten([k \in 1..Len(elements) |->
        LET element == elements[k]
        IN  IF "textRun" \in DOMAIN element
            THEN << Get(element["textRun"], "content", <<>>) >>
            ELSE IF "paragraph" \in DOMAIN element
            THEN extract_text(Get(element["paragraph"], "elements", <<>>))
            ELSE IF "table" \in DOMAIN element
            THEN LET rows == Get(element["table"], "tableRows", <<>>)
                 IN  Flatten([r \in 1..Len(rows) |->
                         LET cells == Get(rows[r], "tableCells", <<>>)
                         IN  Flatten([c \in 1..Len(cells) |->
                                 extract_text(Get(cells[c], "content", <<>>))])])
            ELSE <<>>])

\* The first tab of `tabs` whose tabProperties carry the id wanted, or None.
RECURSIVE FindTab(_, _)
FindTab(tabs, wanted) ==
    IF tabs = <<>> THEN None
    ELSE LET tab_props == Get(Head(tabs), "tabProperties", <<>>)
         IN  IF "tabId" \in DOMAIN tab_props /\ tab_props["tabId"] = wanted
             THEN [kind |-> "tab", tab |-> Head(tabs)]
             ELSE FindTab(Tail(tabs), wanted)

\* export_tab_as_markdown, given the outcome of its documents().get request.
export_tab_as_markdown(doc, wanted, outcome) ==
    CASE outcome = "FileNotFoundError" ->
            [kind |-> "raised", exc |-> "FileNotFoundError", msg |-> "setup"]
      [] outcome = "HttpError" ->
            [kind |-> "raised", exc |-> "Exception", msg |-> "Failed to export tab"]
      [] outcome = "ok" ->
            LET target_tab == FindTab(Get(doc, "tabs", <<>>), wanted)
            IN  IF target_tab = None
                THEN [kind |-> "raised", exc |-> "Exception", msg |-> "not found in document"]
                ELSE LET content ==
                             Get(Get(Get(target_tab.tab, "documentTab", <<>>),
                                     "body", <<>>), "content", <<>>)
                     IN  [kind |-> "returned", val |-> Flatten(extract_text(content))]

(***************************************************************************)
(* The documents the Docs service answers with.                            *)
(***************************************************************************)
\* Most structural elements in the body of a tab.
MaxBody == 2
\* Most tabs of a document.
MaxTabs == 3

Run(c) == [textRun |-> [content |-> <<c>>]]
RunNoContent == [textRun |-> <<>>]
InlineObject == [inlineObjectElement |-> [inlineObjectId |-> <<"k">>]]
Para(es) == [paragraph |-> [elements |-> es]]
ParaNoElements == [paragraph |-> <<>>]
Cell(content) == [content |-> content]
Row(cells) == [tableCells |-> cells]
Table(rows) == [table |-> [tableRows |-> rows]]
SectionBreak == [sectionBreak |-> <<>>]
\* A table of contents holds paragraphs of its own.
TableOfContents == [tableOfContents |-> [content |-> <<Para(<<Run("x")>>)>>]]

Paragraphs == {Para(<<Run("a"), Run("b")>>), Para(<<Run("c")>>),
               Para(<<InlineObject, Run("d"), RunNoContent>>), ParaNoElements}
NestedTable == Table(<<Row(<<Cell(<<Para(<<Run("e")>>)>>), Cell(<<Para(<<Run("f")>>)>>)>>)>>)
Cells == {Cell(<<Para(<<Run("a"), Run("b")>>)>>),
          Cell(<<Para(<<Run("c")>>), Para(<<InlineObject, Run("d"), RunNoContent>>)>>),
          Cell(<<>>), <<>>, Cell(<<NestedTable>>)}
Rows == {Row(<<c>>) : c \in Cells} \cup {Row(<<c, d>>) : c \in Cells, d \in Cells}
        \cup {<<>>}
TwoRowTables ==
    LET some == {Row(<<Cell(<<Para(<<Run("c")>>)>>)>>),
                 Row(<<Cell(<<NestedTable>>), Cell(<<Para(<<Run("a"), Run("b")>>)>>)>>),
                 <<>>}
    IN  {Table(<<r, q>>) : r \in some, q \in some}
Tables == {Table(<<r>>) : r \in Rows} \cup TwoRowTables \cup {[table |-> <<>>]}
Structural == Paragraphs \cup Tables \cup {SectionBreak, TableOfContents}

Bodies == UNION {[1..n -> Structural] : n \in 0..MaxBody}

TabOne == <<"t", "1">>
TabTwo == <<"t", "2">>
TabIds == {TabOne, TabTwo, FallbackTabId(0), DefaultTabId}

\* A document of two tabs, the second with the body given.
ContentDocument(body) ==
    [title |-> <<"D">>,
     tabs |-> << [tabProperties |-> [tabId |-> TabOne, title |-> <<"o">>],
                  documentTab |-> [body |-> [content |-> <<Para(<<Run("z")>>)>>]]],
                 [tabProperties |-> [tabId |-> TabTwo],
                  documentTab |-> [body |-> [content |-> body]]] >>]
ContentDocuments == {ContentDocument(body) : body \in Bodies}

\* How a title key of a tab stands: not there, there and empty, or set.
Presences == {"absent", "empty", "set"}

\* A tab whose four title sources stand as given; a set source holds its own
\* one-letter text.
TitledTab(pt, pd, t, d) ==
    LET how == [ptitle |-> pt, pdisplay |-> pd, title |-> t, display |-> d]
        text(k, letter) == IF how[k] = "set" THEN <<letter>> ELSE <<>>
        props == [k \in {"tabId"} \cup (IF pt = "absent" THEN {} ELSE {"title"})
                                  \cup (IF pd = "absent" THEN {} ELSE {"displayName"}) |->
                     CASE k = "tabId" -> <<"t", "f">>
                       [] k = "title" -> text("ptitle", "P")
                       [] k = "displayName" -> text("pdisplay", "Q")]
    IN  [k \in {"tabProperties"} \cup (IF t = "absent" THEN {} ELSE {"title"})
                                 \cup (IF d = "absent" THEN {} ELSE {"displayName"}) |->
            CASE k = "tabProperties" -> props
              [] k = "title" -> text("title", "R")
              [] k = "displayName" -> text("display", "S")]

TitledTabs == {TitledTab(pt, pd, t, d) :
                  pt \in Presences, pd \in Presences, t \in Presences, d \in Presences}

\* Tabs that stand before a titled tab: ids and indexes at either level, a
\* child object, and a tab with no key at all.
LeadingTabs ==
    { [tabProperties |-> [tabId |-> TabOne, title |-> <<"o">>, index |-> 0]],
      [tabProperties |-> [title |-> <<>>], tabId |-> TabTwo],
      <<>>,
      [tabProperties |-> [tabId |-> <<"t", "4">>, index |-> 5],
       childObjectId |-> <<"c">>, displayName |-> <<"n">>] }

TabLists == UNION {{lead \o <<last>> : lead \in [1..n -> LeadingTabs], last \in TitledTabs} :
                      n \in 0..(MaxTabs - 1)}

\* Documents for list_document_tabs: with tabs, with an empty or a missing
\* list of tabs, with and without a title of their own.
TitleDocuments ==
    {[title |-> <<"D">>, tabs |-> tabs] : tabs \in TabLists}
    \cup {[tabs |-> <<[tabProperties |-> [tabId |-> TabOne]], <<>>>>],
          [title |-> <<"D">>, tabs |-> <<>>], [title |-> <<"D">>], [tabs |-> <<>>],
          [documentId |-> <<"x">>], [title |-> <<>>]}

DocsOutcomes == {"ok", "HttpError", "FileNotFoundError"}

\* Documents for the tab lookup of export_tab_as_markdown: tabs with their id
\* in tabProperties, at the tab's own level, or nowhere, and no tabs at all.
LookupDocuments ==
    {[title |-> <<"D">>, tabs |-> <<first, second>>] :
        first \in LeadingTabs, second \in LeadingTabs}
    \cup {[title |-> <<"D">>, tabs |-> <<>>], [title |-> <<"D">>]}

TabsInit ==
    /\ document \in TitleDocuments
    /\ tab_id = <<>> /\ tabs_ret = None /\ tab_ret = None /\ all_tabs_ret = None
    /\ IdIdle /\ SheetIdle /\ BatchIdle /\ NameIdle /\ AuthIdle /\ CliIdle /\ NoLoads

\* One call of list_document_tabs.
ListDocumentTabs ==
    /\ tabs_ret = None
    /\ \E outcome \in DocsOutcomes : tabs_ret' = list_document_tabs(document, outcome)
    /\ UNCHANGED <<document, tab_id, tab_ret, all_tabs_ret, idVars, sheetVars,
                   batchVars, nameVars, authVars, cliVars, credential_loads>>

TabsNext == ListDocumentTabs

SpecTabs == TabsInit /\ [][TabsNext]_vars

TextInit ==
    /\ \/ document \in ContentDocuments /\ tab_id = TabTwo
       \/ document \in LookupDocuments /\ tab_id \in TabIds
    /\ tabs_ret = None /\ tab_ret = None /\ all_tabs_ret = None
    /\ IdIdle /\ SheetIdle /\ BatchIdle /\ NameIdle /\ AuthIdle /\ CliIdle /\ NoLoads

\* One call of export_tab_as_markdown.
ExportTabAsMarkdown ==
    /\ tab_ret = None
    /\ \E outcome \in DocsOutcomes :
           tab_ret' = export_tab_as_markdown(document, tab_id, outcome)
    /\ UNCHANGED <<document, tab_id, tabs_ret, all_tabs_ret, idVars, sheetVars,
                   batchVars, nameVars, authVars, cliVars, credential_loads>>

TextNext == ExportTabAsMarkdown

SpecText == TextInit /\ [][TextNext]_vars

(***************************************************************************)
(* The path segments made of remote titles (src/gcmd/sheets.py,            *)
(* src/gdrive_utils/docs.py, src/gdrive_utils/download.py).                *)
(***************************************************************************)
\* Longest remote title enumerated.
MaxTitleLen == 2

TitleAlphabet == UnsafeChars \cup {"a", ".", " "}
RemoteTitles == UNION {[1..n -> TitleAlphabet] : n \in 0..MaxTitleLen}
TabTitles == {<<"x">>, <<"/", "?">>, <<"a", "*", "b">>, <<>>}

Csv == <<".", "c", "s", "v">>
Md == <<".", "m", "d">>
ExportedMd == <<".", "e", "x", "p", "o", "r", "t", "e", "d", ".", "m", "d">>
Dash == <<" ", "-", " ">>

NameInit ==
    /\ remote_title \in RemoteTitles
    /\ path_segment = None
    /\ IdIdle /\ SheetIdle /\ BatchIdle /\ DocIdle /\ AuthIdle /\ CliIdle /\ NoLoads

\* export_spreadsheet_as_csv: output_path = base_path / safe_title, and
\* filepath = output_path / filename for one sheet of the spreadsheet;
\* remote_title is the spreadsheet's title.
SpreadsheetDirectory ==
    /\ path_segment = None
    /\ \E sheet_title \in TabTitles :
           LET md == [properties |-> [title |-> remote_title]]
           IN  path_segment' =
                   [site |-> "spreadsheet directory", name |-> Sanitize(remote_title),
                    sheet_title |-> sheet_title,
                    directory |-> output_path(md),
                    file |-> filepath(md, [title |-> sheet_title])]
    /\ UNCHANGED <<remote_title, idVars, sheetVars, batchVars, docVars, authVars,
                   cliVars, credential_loads>>

\* export_spreadsheet_as_csv: filename = f"{safe_sheet_title}.csv"
SheetFile ==
    /\ path_segment = None
    /\ path_segment' = [site |-> "sheet file", name |-> Sanitize(remote_title) \o Csv]
    /\ UNCHANGED <<remote_title, idVars, sheetVars, batchVars, docVars, authVars,
                   cliVars, credential_loads>>

\* export_google_doc_as_markdown: f"{safe_filename}.md" under an output
\* directory, f"{safe_filename}.exported.md" without an output path.
DocumentFile ==
    /\ path_segment = None
    /\ \E output_is_dir \in BOOLEAN :
           path_segment' = [site |-> "document file",
                            name |-> Sanitize(remote_title)
                                     \o (IF output_is_dir THEN Md ELSE ExportedMd)]
    /\ UNCHANGED <<remote_title, idVars, sheetVars, batchVars, docVars, authVars,
                   cliVars, credential_loads>>

\* export_all_tabs: f"{safe_title}.exported.md" for a document of one tab,
\* f"{safe_title} - {safe_tab_title}.exported.md" otherwise; remote_title is
\* the document's title.
TabFile ==
    /\ path_segment = None
    /\ \E tab_title \in TabTitles, one_tab \in BOOLEAN :
           path_segment' =
               [site |-> "tab file", tab_title |-> tab_title, one_tab |-> one_tab,
                name |-> IF one_tab
                         THEN Sanitize(remote_title) \o ExportedMd
                         ELSE Sanitize(remote_title) \o Dash \o Sanitize(tab_title)
                              \o ExportedMd]
    /\ UNCHANGED <<remote_title, idVars, sheetVars, batchVars, docVars, authVars,
                   cliVars, credential_loads>>

\* download_file: output_file / safe_filename, or Path(safe_filename)
DownloadedFile ==
    /\ path_segment = None
    /\ path_segment' = [site |-> "downloaded file", name |-> Sanitize(remote_title)]
    /\ UNCHANGED <<remote_title, idVars, sheetVars, batchVars, docVars, authVars,
                   cliVars, credential_loads>>

NameNext == SpreadsheetDirectory \/ SheetFile \/ DocumentFile \/ TabFile \/ DownloadedFile

SpecName == NameInit /\ [][NameNext]_vars

(***************************************************************************)
(* get_authenticated_credentials and revoke_credentials (src/gcmd/auth.py). *)
(* A credential is its access token (0 when it has none), the time it      *)
(* expires and whether it carries a refresh token.                         *)
(***************************************************************************)
\* Most access tokens the authorization server issues.
MaxIssued == 3
\* Latest time of the clock.
MaxTime == 2

Absent == [kind |-> "absent"]
Corrupt == [kind |-> "corrupt"]
Stored(creds) == [kind |-> "creds", creds |-> creds]

\* creds.expired
expired(creds, t) == t >= creds.expiry

NeverValid(creds, t) == FALSE

\* creds.valid
valid(creds, t) == creds.token # 0 /\ ~expired(creds, t)

\* The credential the authorization server issues as its n-th.
Issue(n, t, refresh_token) == [token |-> n, expiry |-> t + 1, refresh_token |-> refresh_token]

SaveOutcomes == {"ok", "open failed", "write failed"}

SaveSkipped(file, creds, outcome) ==
    [raised |-> FALSE, file |-> file, events |-> <<"save_credentials">>]

\* save_credentials: open(token_path, "w") and write; a failed open leaves the
\* file, a failed write leaves it truncated.
save_credentials(file, creds, outcome) ==
    CASE outcome = "ok" ->
            [raised |-> FALSE, file |-> Stored(creds),
             events |-> <<"save_credentials", "write token.json">>]
      [] outcome = "open failed" ->
            [raised |-> TRUE, file |-> file, events |-> <<"save_credentials">>]
      [] outcome = "write failed" ->
            [raised |-> TRUE, file |-> Corrupt,
             events |-> <<"save_credentials", "write token.json">>]

\* load_credentials: None without a token file, else what
\* Credentials.from_authorized_user_file makes of it.
load_credentials(file) ==
    CASE file = Absent ->
            [kind |-> "returned", val |-> None, events |-> <<"load_credentials">>]
      [] file = Corrupt ->
            [kind |-> "raised", exc |-> "ValueError",
             events |-> <<"load_credentials", "read token.json">>]
      [] OTHER ->
            [kind |-> "returned", val |-> file,
             events |-> <<"load_credentials", "read token.json">>]

\* What the environment decides during one call.
AuthEnvironments ==
    [refresh : {"ok", "failed"}, save_refreshed : SaveOutcomes,
     client_file : {"ok", "invalid"}, browser : {"ok", "failed"},
     manual : {"ok", "failed"}, save_issued : SaveOutcomes]

\* From `flow = InstalledAppFlow.from_client_secrets_file(...)` to the end: the
\* flow (browser, then the code pasted by hand) and save_credentials.  n
\* tokens have been issued; events is what the call has done so far.
RunFlow(file, t, n, env, events) ==
    IF env.client_file = "invalid"
    THEN [ret |-> [kind |-> "raised", exc |-> "ValueError", msg |-> "client secrets"],
          file |-> file, events |-> events \o <<"from_client_secrets_file">>,
          issued |-> n]
    ELSE LET browser == events \o <<"from_client_secrets_file", "run_local_server">>
             by_hand == browser \o <<"fetch_token">>
         IN  IF env.browser = "failed" /\ env.manual = "failed"
             THEN [ret |-> [kind |-> "raised", exc |-> "Exception", msg |-> "fetch_token"],
                   file |-> file, events |-> by_hand, issued |-> n]
             ELSE LET creds == Issue(n + 1, t, TRUE)
                      saved == save_credentials(file, creds, env.save_issued)
                      done == (IF env.browser = "ok" THEN browser ELSE by_hand)
                              \o <<"authorized">> \o saved.events
                  IN  [ret |-> IF saved.raised
                               THEN [kind |-> "raised", exc |-> "OSError", msg |-> "token.json"]
                               ELSE [kind |-> "returned", val |-> creds],
                       file |-> saved.file, events |-> done, issued |-> n + 1]

FlowUnchecked(file, secret, t, n, env, events) == RunFlow(file, t, n, env, events)

\* From `credentials_path = get_credentials_path()` on: the check for the
\* client-secret file, then the flow.
InteractiveFlow(file, secret, t, n, env, events) ==
    IF ~secret
    THEN [ret |-> [kind |-> "raised", exc |-> "FileNotFoundError",
                   msg |-> "FIRST-TIME SETUP REQUIRED"],
          file |-> file, events |-> events, issued |-> n]
    ELSE RunFlow(file, t, n, env, events)

\* `creds.expired and creds.refresh_token`
CanRefresh(creds, t) == expired(creds, t) /\ creds.refresh_token

\* get_authenticated_credentials with the token file, the client-secret file,
\* the clock and the number of tokens issued as they stand: what it returns
\* or raises, the token file afterwards, what it did.
get_authenticated_credentials(file, secret, t, n, env) ==
    LET loaded == load_credentials(file)
    IN  IF loaded.kind = "raised"
        THEN [ret |-> [kind |-> "raised", exc |-> loaded.exc, msg |-> "token.json"],
              file |-> file, events |-> loaded.events, issued |-> n]
        ELSE IF loaded.val # None /\ valid(loaded.val.creds, t)
        THEN [ret |-> [kind |-> "returned", val |-> loaded.val.creds],
              file |-> file, events |-> loaded.events, issued |-> n]
        ELSE IF loaded.val # None /\ CanRefresh(loaded.val.creds, t)
        THEN IF env.refresh = "ok"
             THEN LET creds == Issue(n + 1, t, TRUE)
                      saved == save_credentials(file, creds, env.save_refreshed)
                      events == loaded.events \o <<"refresh", "refreshed">> \o saved.events
                  IN  IF saved.raised
                      THEN InteractiveFlow(saved.file, secret, t, n + 1, env, events)
                      ELSE [ret |-> [kind |-> "returned", val |-> creds],
                            file |-> saved.file, events |-> events, issued |-> n + 1]
             ELSE InteractiveFlow(file, secret, t, n, env,
                                  loaded.events \o <<"refresh", "refresh failed">>)
        ELSE InteractiveFlow(file, secret, t, n, env, loaded.events)

RevokeKeepsFile(file) == file

\* revoke_credentials: the token file afterwards.
revoke_credentials(file) == IF file # Absent THEN Absent ELSE file

StoredCredentials ==
    {[token |-> k, expiry |-> e, refresh_token |-> r] :
        k \in {0, 1}, e \in {0, 1, MaxTime + 1}, r \in BOOLEAN}

AuthInit ==
    /\ token_file \in {Absent, Corrupt} \cup {Stored(c) : c \in StoredCredentials}
    /\ client_secret \in BOOLEAN
    /\ now = 0
    /\ issued = 1
    /\ auth_ret = None
    /\ auth_events = <<>>
    /\ IdIdle /\ SheetIdle /\ BatchIdle /\ DocIdle /\ NameIdle /\ CliIdle /\ NoLoads

\* One call of get_authenticated_credentials.
GetAuthenticatedCredentials ==
    /\ issued < MaxIssued
    /\ \E env \in AuthEnvironments :
           LET call == get_authenticated_credentials(token_file, client_secret, now,
                                                     issued, env)
           IN  /\ auth_ret' = [op |-> "get_authenticated_credentials"] @@ call.ret
               /\ token_file' = call.file
               /\ auth_events' = call.events
               /\ issued' = call.issued
    /\ UNCHANGED <<client_secret, now, idVars, sheetVars, batchVars, docVars, nameVars,
                   cliVars, credential_loads>>

\* One call of revoke_credentials.
RevokeCredentials ==
    /\ token_file' = revoke_credentials(token_file)
    /\ auth_ret' = [op |-> "revoke_credentials", kind |-> "returned", val |-> None]
    /\ auth_events' = IF token_file # Absent THEN <<"unlink token.json">> ELSE <<>>
    /\ UNCHANGED <<client_secret, now, issued, idVars, sheetVars, batchVars, docVars,
                   nameVars, cliVars, credential_loads>>

\* Time passes.
Tick ==
    /\ now < MaxTime
    /\ now' = now + 1
    /\ UNCHANGED <<token_file, client_secret, issued, auth_ret, auth_events, idVars,
                   sheetVars, batchVars, docVars, nameVars, cliVars, credential_loads>>

AuthNext == GetAuthenticatedCredentials \/ RevokeCredentials \/ Tick

SpecAuth == AuthInit /\ [][AuthNext]_vars

(***************************************************************************)
(* The command line: main, the handlers cmd_export, cmd_download,          *)
(* cmd_info, cmd_list and cmd_tasks, and the library routines they call.   *)
(* Every get_drive_service, get_docs_service, get_sheets_service and       *)
(* get_tasks_service calls get_authenticated_credentials, which begins     *)
(* with load_credentials: credential_loads counts those calls.             *)
(***************************************************************************)
GoogleApps == <<"a", "p", "p", "l", "i", "c", "a", "t", "i", "o", "n", "/", "v", "n", "d", ".", "g", "o", "o", "g", "l", "e", "-", "a", "p", "p", "s", ".">>
GoogleDocument == GoogleApps \o <<"d", "o", "c", "u", "m", "e", "n", "t">>
GoogleSpreadsheet == GoogleApps \o <<"s", "p", "r", "e", "a", "d", "s", "h", "e", "e", "t">>
GooglePresentation == GoogleApps \o <<"p", "r", "e", "s", "e", "n", "t", "a", "t", "i", "o", "n">>
ApplicationPdf == <<"a", "p", "p", "l", "i", "c", "a", "t", "i", "o", "n", "/", "p", "d", "f">>

\* str.startswith
startswith(s, prefix) ==
    Len(s) >= Len(prefix) /\ SubSeq(s, 1, Len(prefix)) = prefix

\* One operation a handler or a library routine performed, and whether it
\* raised.
Op(name, raised) == [op |-> name, raised |-> raised]

\* print(text) and print(text, file=sys.stderr); `about` is the exception or
\* the value interpolated into the text.
StdOut(text, about) == [stream |-> "stdout", text |-> text, about |-> about]
StdErr(text, about) == [stream |-> "stderr", text |-> text, about |-> about]

Error(exc, msg) == [exc |-> exc, msg |-> msg]

\* What a routine did: its return value or exception, the operations it
\* performed in order, what it printed, the files afterwards, and the calls of
\* load_credentials it made.
Returned(val, ops, out, fs, loads) ==
    [kind |-> "returned", val |-> val, ops |-> ops, out |-> out, files |-> fs,
     loads |-> loads]
Raised(e, ops, out, fs, loads) ==
    [kind |-> "raised", error |-> e, ops |-> ops, out |-> out, files |-> fs,
     loads |-> loads]

\* open(path, "w") or io.FileIO(path, "wb"), then the writes.
WriteFile(fs, path, content) ==
    [f \in DOMAIN fs \cup {path} |-> IF f = path THEN content ELSE fs[f]]

\* A remote call: it answers, the HTTP layer raises HttpError, or the service
\* cannot be built because get_authenticated_credentials raised
\* FileNotFoundError.
RemoteOutcomes == {"ok", "HttpError", "FileNotFoundError"}

NoCredentials == Error("FileNotFoundError", "OAuth client credentials not found")

\* get_file_metadata: the service, then files().get(...).execute().
get_file_metadata(meta, outcome) ==
    CASE outcome = "ok" ->
            Returned(meta, <<Op("get_drive_service", FALSE), Op("files.get", FALSE)>>,
                     <<>>, <<>>, 1)
      [] outcome = "HttpError" ->
            Raised(Error("Exception", "Failed to get file metadata"),
                   <<Op("get_drive_service", FALSE), Op("files.get", TRUE)>>,
                   <<>>, <<>>, 1)
      [] outcome = "FileNotFoundError" ->
            Raised(NoCredentials, <<Op("get_drive_service", TRUE)>>, <<>>, <<>>, 1)

\* A mime type of one Google editor only.
IsGoogleDocument(mime_type) == mime_type = GoogleDocument

\* mime_type.startswith("application/vnd.google-apps.")
IsGoogleNative(mime_type) == startswith(mime_type, GoogleApps)

DefaultFileName == <<"f", "i", "l", "e">>
DownloadedBytes == <<37, 80>>

\* Where download_file stops: at its own get_drive_service, in
\* get_file_metadata, at mkdir, at io.FileIO, at next_chunk, or nowhere.
DownloadOutcomes ==
    {"ok", "service", "metadata", "metadata_service", "mkdir", "open", "next_chunk"}

\* download_file(file_id, output_path) for a file with the metadata `meta`;
\* `output` is None or the path given. No path of the model is an existing
\* directory.
download_file(meta, output, fs, outcome) ==
    LET service == <<Op("get_drive_service", outcome = "service")>>
        got == get_file_metadata(meta, CASE outcome = "metadata" -> "HttpError"
                                         [] outcome = "metadata_service" ->
                                                "FileNotFoundError"
                                         [] OTHER -> "ok")
        mime_type == Get(meta, "mimeType", <<>>)
        file_name == Get(meta, "name", DefaultFileName)
        safe_filename == Sanitize(file_name)
        output_file == IF output # None THEN output.val ELSE safe_filename
        request == service \o got.ops \o <<Op("files.get_media", FALSE)>>
        mkdir == request \o <<Op("mkdir", outcome = "mkdir")>>
        opened == mkdir \o <<Op("io.FileIO", outcome = "open")>>
        chunk == opened \o <<Op("next_chunk", outcome = "next_chunk")>>
    IN  CASE outcome = "service" -> Raised(NoCredentials, service, <<>>, fs, 1)
          [] got.kind = "raised" ->
                Raised(got.error, service \o got.ops, <<>>, fs, 2)
          [] IsGoogleNative(mime_type) ->
                Raised(Error("Exception",
                             "This is a Google file. Use 'export' command with appropriate format."),
                       service \o got.ops, <<>>, fs, 2)
          [] outcome = "mkdir" -> Raised(Error("OSError", "mkdir"), mkdir, <<>>, fs, 2)
          [] outcome = "open" -> Raised(Error("OSError", "open"), opened, <<>>, fs, 2)
          [] outcome = "next_chunk" ->
                Raised(Error("Exception", "Failed to download file"), chunk,
                       <<>>, WriteFile(fs, output_file, <<>>), 2)
          [] OTHER ->
                Returned(output_file, chunk \o <<Op("close", FALSE)>>,
                         <<StdErr("Download progress", output_file)>>,
                         WriteFile(fs, output_file, DownloadedBytes), 2)

DefaultDocumentName == <<"d", "o", "c", "u", "m", "e", "n", "t">>
ExportedMarkdown == <<"#", " ", "T">>
Stdout == <<"s", "t", "d", "o", "u", "t">>

\* Path.suffix is empty: no dot after the first character of the last
\* component.
NoSuffix(path) ==
    ~ \E i \in 2..Len(path) : path[i] = "." /\ \A j \in i..Len(path) : path[j] # "/"

\* Where export_google_doc_as_markdown stops.
ExportDocOutcomes ==
    {"ok", "service", "metadata", "metadata_service", "next_chunk", "mkdir", "write_text"}

\* export_google_doc_as_markdown(file_id, output_path, use_title) for a file
\* with the metadata `meta`.
export_google_doc_as_markdown(meta, output, use_title, fs, outcome) ==
    LET service == <<Op("get_drive_service", outcome = "service")>>
        got == get_file_metadata(meta, CASE outcome = "metadata" -> "HttpError"
                                         [] outcome = "metadata_service" ->
                                                "FileNotFoundError"
                                         [] OTHER -> "ok")
        mime_type == Get(meta, "mimeType", <<>>)
        safe_filename == Sanitize(Get(meta, "name", DefaultDocumentName))
        output_file ==
            IF output # None
            THEN IF NoSuffix(output.val) THEN output.val \o Md ELSE output.val
            ELSE safe_filename \o ExportedMd
        request == service \o got.ops \o <<Op("files.export_media", FALSE)>>
        chunk == request \o <<Op("next_chunk", outcome = "next_chunk")>>
        mkdir == chunk \o <<Op("mkdir", outcome = "mkdir")>>
        written == mkdir \o <<Op("write_text", outcome = "write_text")>>
    IN  CASE outcome = "service" -> Raised(NoCredentials, service, <<>>, fs, 1)
          [] got.kind = "raised" ->
                Raised(got.error, service \o got.ops, <<>>, fs, 2)
          [] mime_type # GoogleDocument ->
                Raised(Error("Exception", "File is not a Google Doc"),
                       service \o got.ops, <<>>, fs, 2)
          [] outcome = "next_chunk" ->
                Raised(Error("Exception", "Failed to export document"), chunk,
                       <<>>, fs, 2)
          [] output = None /\ ~use_title ->
                Returned(Stdout, chunk, <<StdOut("content", ExportedMarkdown)>>,
                         fs, 2)
          [] outcome = "mkdir" -> Raised(Error("OSError", "mkdir"), mkdir, <<>>, fs, 2)
          [] outcome = "write_text" ->
                Raised(Error("OSError", "write_text"), written, <<>>, fs, 2)
          [] OTHER ->
                Returned(output_file, written, <<>>,
                         WriteFile(fs, output_file, ExportedMarkdown), 2)

\* What one tab's export and write may do in export_all_tabs.
TabOutcomes == {"ok", "HttpError", "FileNotFoundError", "write_text"}

\* filename of export_all_tabs for the entry `tab` of `tabs`.
TabFilename(safe_title, tabs, tab) ==
    IF Len(tabs) = 1
    THEN safe_title \o ExportedMd
    ELSE safe_title \o Dash \o Sanitize(tab.title) \o ExportedMd

\* Path(output_dir) / filename; the current directory adds nothing.
InDirectory(dir, filename) ==
    IF dir = <<".">> THEN filename ELSE JoinPath(dir, filename)

NoTab(doc, dir, tabs, p, outcomes, done) == done

\* The loop of export_all_tabs from the p-th tab on: `done` is what the tabs
\* before it left behind, `outcomes[p]` what happens to the p-th.
RECURSIVE ForTab(_, _, _, _, _, _)
ForTab(doc, dir, tabs, p, outcomes, done) ==
    IF p > Len(tabs)
    THEN done
    ELSE LET tab == tabs[p]
             path == InDirectory(dir, TabFilename(Sanitize(Get(doc, "title",
                                                               DefaultDocumentName)),
                                                  tabs, tab))
             content == export_tab_as_markdown(doc, tab.tabId,
                                               IF outcomes[p] = "write_text"
                                               THEN "ok" ELSE outcomes[p])
             exported == content.kind = "returned" /\ outcomes[p] = "ok"
             ops == <<Op("export_tab_as_markdown", content.kind = "raised")>>
                    \o IF content.kind = "returned"
                       THEN <<Op("write_text", outcomes[p] = "write_text")>>
                       ELSE <<>>
         IN  ForTab(doc, dir, tabs, p + 1, outcomes,
                    [val |-> IF exported THEN Append(done.val, path) ELSE done.val,
                     ops |-> done.ops \o ops,
                     out |-> IF exported THEN done.out
                             ELSE Append(done.out,
                                         StdOut("Warning: Failed to export tab",
                                                tab.title)),
                     files |-> IF exported
                               THEN WriteFile(done.files, path, content.val)
                               ELSE done.files,
                     loads |-> done.loads + 1])

\* Where export_all_tabs stops before its loop.
AllTabsSetups == {"ok", "list_document_tabs", "get_document_details", "mkdir"}

\* export_all_tabs(document_id, output_dir) for the document `doc`.
export_all_tabs(doc, dir, fs, setup, outcomes) ==
    LET listed == list_document_tabs(doc, IF setup = "list_document_tabs"
                                          THEN "HttpError" ELSE "ok")
        details == get_document_details(doc, IF setup = "get_document_details"
                                             THEN "HttpError" ELSE "ok")
        first == <<Op("list_document_tabs", listed.kind = "raised")>>
        second == first \o <<Op("get_document_details", details.kind = "raised")>>
        third == second \o <<Op("mkdir", setup = "mkdir")>>
    IN  CASE listed.kind = "raised" ->
                Raised(Error(listed.exc, listed.msg), first, <<>>, fs, 1)
          [] details.kind = "raised" ->
                Raised(Error(details.exc, details.msg), second, <<>>, fs, 2)
          [] setup = "mkdir" -> Raised(Error("OSError", "mkdir"), third, <<>>, fs, 2)
          [] OTHER ->
                LET done == ForTab(doc, dir, listed.val, 1, outcomes,
                                   [val |-> <<>>, ops |-> third, out |-> <<>>,
                                    files |-> fs, loads |-> 2])
                IN  Returned(done.val, done.ops, done.out, done.files, done.loads)

\* The documents export_all_tabs is called for: those of the tab lookup, and
\* one whose second tab has text.
AllTabsDocuments == LookupDocuments \cup {ContentDocument(<<Para(<<Run("c")>>)>>)}

AllTabsInit ==
    /\ document \in AllTabsDocuments
    /\ tab_id = <<>> /\ tabs_ret = None /\ tab_ret = None /\ all_tabs_ret = None
    /\ IdIdle /\ SheetIdle /\ BatchIdle /\ NameIdle /\ AuthIdle /\ CliIdle /\ NoLoads

\* One call export_all_tabs(document_id, output_dir): what it returned or
\* raised, what it performed and printed, and the files afterwards.
ExportAllTabs ==
    /\ all_tabs_ret = None
    /\ \E setup \in AllTabsSetups, outcomes \in [1..Len(TabsOf(document)) -> TabOutcomes] :
           LET r == export_all_tabs(document, output_dir, files, setup, outcomes)
           IN  /\ all_tabs_ret' = IF r.kind = "returned"
                                  THEN [kind |-> "returned", val |-> r.val]
                                  ELSE [kind |-> "raised", exc |-> r.error.exc]
               /\ performed' = r.ops
               /\ printed' = r.out
               /\ files' = r.files
               /\ credential_loads' = credential_loads + r.loads
    /\ UNCHANGED <<document, tab_id, tabs_ret, tab_ret, args, file_meta, cli_pc,
                   main_ret, idVars, sheetVars, metadata, sheet_names,
                   delay_between_sheets, sheets, idx, exported_files, history,
                   batch_ret, nameVars, authVars>>

AllTabsNext == ExportAllTabs

SpecAllTabs == AllTabsInit /\ [][AllTabsNext]_vars

\* A routine that acquires one service and sends one request: list_comments,
\* list_files, list_tasks and list_task_lists, and get_document_structure,
\* which calls get_document_details.
OneRequest(name, outcome) ==
    CASE outcome = "ok" -> Returned(<<>>, <<Op(name, FALSE)>>, <<>>, <<>>, 1)
      [] outcome = "HttpError" ->
            Raised(Error("Exception", name), <<Op(name, TRUE)>>,
                   <<>>, <<>>, 1)
      [] outcome = "FileNotFoundError" ->
            Raised(NoCredentials, <<Op(name, TRUE)>>, <<>>, <<>>, 1)

\* `return 0` at the end of the try block.
Return0(ops, out, fs, loads) ==
    [ret |-> [kind |-> "returned", val |-> 0], ops |-> ops, out |-> out,
     files |-> fs, loads |-> loads]

\* The handler goes on.
Calling(ops, out, fs, loads) ==
    [ret |-> None, ops |-> ops, out |-> out, files |-> fs, loads |-> loads]

Swallowed(e, ops, out, fs, loads) == Return0(ops, out, fs, loads)

\* The outer `except Exception as e` of a handler:
\* print(f"Error: {e}", file=sys.stderr); return 1. What is not an Exception
\* leaves the handler and main.
Caught(e, ops, out, fs, loads) ==
    IF ExceptException(e)
    THEN [ret |-> [kind |-> "returned", val |-> 1], ops |-> ops,
          out |-> Append(out, StdErr("Error", e)), files |-> fs, loads |-> loads]
    ELSE [ret |-> [kind |-> "raised", exc |-> e.exc], ops |-> ops, out |-> out,
          files |-> fs, loads |-> loads]

CouldNotExtract == Error("ValueError", "Could not extract file ID")

\* output_dir = args.output or "."
OutputOrDot(a) == IF a.output # None THEN a.output.val ELSE <<".">>

\* The first statement of cmd_export, cmd_download and cmd_info:
\* file_id = extract_file_id(args.file_id_or_url).
FileIdOf(id, fs) ==
    IF id.kind = "raised"
    THEN Caught(CouldNotExtract, <<Op("extract_file_id", TRUE)>>, <<>>, fs, 0)
    ELSE Calling(<<Op("extract_file_id", FALSE)>>, <<>>, fs, 0)

RoutineByFlag(mime_type, all_tabs) ==
    CASE all_tabs -> "export_all_tabs"
      [] mime_type = GoogleSpreadsheet -> "export_spreadsheet_as_csv"
      [] mime_type = GoogleDocument -> "export_google_doc_as_markdown"
      [] OTHER -> "raise"

\* The if/elif/else of lines 182 to 219: the routine cmd_export calls, or the
\* raise of "Unsupported file type".
Routine(mime_type, all_tabs) ==
    CASE mime_type = GoogleSpreadsheet -> "export_spreadsheet_as_csv"
      [] mime_type = GoogleDocument /\ all_tabs -> "export_all_tabs"
      [] mime_type = GoogleDocument -> "export_google_doc_as_markdown"
      [] OTHER -> "raise"

\* cmd_export from line 178 to its return, or to the call of
\* export_spreadsheet_as_csv at line 186.
cmd_export(a, meta, doc, fs, o) ==
    LET got == get_file_metadata(meta, o.metadata)
        mime_type == Get(meta, "mimeType", <<>>)
        second == <<Op("get_file_metadata", got.kind = "raised")>>
    IN  CASE got.kind = "raised" -> Caught(got.error, second, <<>>, fs, got.loads)
          [] Routine(mime_type, a.all_tabs) = "export_spreadsheet_as_csv" ->
                Calling(second, <<StdErr("Exporting spreadsheet to", OutputOrDot(a))>>,
                        fs, got.loads)
          [] Routine(mime_type, a.all_tabs) = "export_all_tabs" ->
                LET r == export_all_tabs(doc, OutputOrDot(a), fs, o.setup, o.tabs)
                    ops == second \o r.ops
                           \o <<Op("export_all_tabs", r.kind = "raised")>>
                    out == <<StdErr("Exporting all tabs to", OutputOrDot(a))>> \o r.out
                IN  IF r.kind = "raised"
                    THEN Caught(r.error, ops, out, r.files, got.loads + r.loads)
                    ELSE Return0(ops,
                                 Append(out, StdErr("Successfully exported", r.val)),
                                 r.files, got.loads + r.loads)
          [] Routine(mime_type, a.all_tabs) = "export_google_doc_as_markdown" ->
                LET r == export_google_doc_as_markdown(meta, a.output, TRUE, fs,
                                                       o.single)
                    ops == second \o r.ops
                           \o <<Op("export_google_doc_as_markdown", r.kind = "raised")>>
                IN  IF r.kind = "raised"
                    THEN Caught(r.error, ops, r.out, r.files, got.loads + r.loads)
                    ELSE Return0(ops,
                                 IF r.val # Stdout
                                 THEN Append(r.out, StdErr("Exported to", r.val))
                                 ELSE r.out,
                                 r.files, got.loads + r.loads)
          [] OTHER ->
                Caught(Error("Exception", "Unsupported file type"),
                       Append(second, Op("raise", TRUE)), <<>>, fs, got.loads)

\* Lines 188 to 192 and the handler's except, once export_spreadsheet_as_csv
\* is over.
cmd_export_after(ops, out, fs, ret) ==
    LET done == Append(ops, Op("export_spreadsheet_as_csv", ret.kind = "raised"))
    IN  IF ret.kind = "raised"
        THEN Caught(Error(ret.exc, "export_spreadsheet_as_csv"), done, out, fs, 0)
        ELSE Return0(done, Append(out, StdErr("Successfully exported", ret.val)), fs, 0)

\* cmd_download from line 230 on.
cmd_download(a, meta, fs, o) ==
    LET r == download_file(meta, a.output, fs, o)
        ops == r.ops \o <<Op("download_file", r.kind = "raised")>>
    IN  IF r.kind = "raised"
        THEN Caught(r.error, ops, r.out, r.files, r.loads)
        ELSE Return0(ops, Append(r.out, StdErr("Downloaded to", r.val)), r.files,
                     r.loads)

\* Lines 331 to 351 of cmd_info: the tabs and the headings of a document, in
\* a try block of their own.
DocumentStructure(doc, o) ==
    LET tabs == list_document_tabs(doc, o.tabs)
        structure == OneRequest("get_document_structure", o.structure)
        heading == <<StdOut("DOCUMENT STRUCTURE", "heading")>>
    IN  CASE tabs.kind = "raised" ->
                [ops |-> <<Op("list_document_tabs", TRUE)>>,
                 out |-> Append(heading,
                                StdOut("Note: Could not retrieve document structure",
                                       Error(tabs.exc, tabs.msg))),
                 loads |-> 1]
          [] structure.kind = "raised" ->
                [ops |-> <<Op("list_document_tabs", FALSE)>> \o structure.ops,
                 out |-> heading \o <<StdOut("Tabs", tabs.val),
                                      StdOut("Note: Could not retrieve document structure",
                                             structure.error)>>,
                 loads |-> 2]
          [] OTHER ->
                [ops |-> <<Op("list_document_tabs", FALSE)>> \o structure.ops,
                 out |-> heading \o <<StdOut("Tabs", tabs.val)>>,
                 loads |-> 2]

\* Lines 354 to 368 of cmd_info: the comments, in a try block of their own.
Comments(o) ==
    LET comments == OneRequest("list_comments", o.comments)
    IN  [ops |-> comments.ops,
         out |-> IF comments.kind = "raised"
                 THEN <<StdOut("Note: Could not retrieve comments", comments.error)>>
                 ELSE <<StdOut("COMMENTS", "No comments on this file.")>>,
         loads |-> 1]

Nothing == [ops |-> <<>>, out |-> <<>>, loads |-> 0]

\* cmd_info from line 242 on.
cmd_info(a, meta, doc, fs, o) ==
    LET got == get_file_metadata(meta, o.metadata)
        second == <<Op("get_file_metadata", got.kind = "raised")>>
        basic == <<StdOut("FILE INFORMATION", "heading")>>
        detailed == IF a.verbose
                    THEN <<StdOut("DETAILED INFORMATION", "heading")>> ELSE <<>>
        structure == IF a.verbose /\ Get(meta, "mimeType", <<>>) = GoogleDocument
                     THEN DocumentStructure(doc, o) ELSE Nothing
        comments == IF a.verbose \/ a.show_comments THEN Comments(o) ELSE Nothing
    IN  IF got.kind = "raised"
        THEN Caught(got.error, second, <<>>, fs, got.loads)
        ELSE Return0(second \o structure.ops \o comments.ops,
                     basic \o detailed \o structure.out \o comments.out,
                     fs, got.loads + structure.loads + comments.loads)

cmd_list(fs, o) ==
    LET r == OneRequest("list_files", o)
    IN  IF r.kind = "raised"
        THEN Caught(r.error, r.ops, <<>>, fs, r.loads)
        ELSE Return0(r.ops, <<StdOut("format_file_list", r.val)>>, fs, r.loads)

cmd_tasks(a, fs, o) ==
    LET r == IF a.list_all_lists
             THEN OneRequest("list_task_lists", o) ELSE OneRequest("list_tasks", o)
    IN  IF r.kind = "raised"
        THEN Caught(r.error, r.ops, <<>>, fs, r.loads)
        ELSE Return0(r.ops,
                     <<StdOut(IF a.list_all_lists
                              THEN "format_task_lists" ELSE "format_task_list",
                              r.val)>>,
                     fs, r.loads)

\* The parsed command lines: args.output is None or a path, and the flags
\* of each subcommand; "none" is the command line with no subcommand.
Path(p) == [kind |-> "str", val |-> p]
Namespace(command, output, all_tabs, verbose, show_comments, list_all_lists) ==
    [command |-> command, output |-> output, all_tabs |-> all_tabs,
     verbose |-> verbose, show_comments |-> show_comments,
     list_all_lists |-> list_all_lists]
CommandLines ==
    {Namespace("cmd_export", out, all, FALSE, FALSE, FALSE) :
        out \in {None, Path(output_dir)}, all \in BOOLEAN}
    \cup {Namespace("cmd_download", out, FALSE, FALSE, FALSE, FALSE) :
             out \in {None, Path(output_dir)}}
    \cup {Namespace("cmd_info", None, FALSE, v, c, FALSE) :
             v \in BOOLEAN, c \in BOOLEAN}
    \cup {Namespace("cmd_tasks", None, FALSE, FALSE, FALSE, l) : l \in BOOLEAN}
    \cup {Namespace("cmd_list", None, FALSE, FALSE, FALSE, FALSE),
          Namespace("none", None, FALSE, FALSE, FALSE, FALSE)}

TakesFile == {"cmd_export", "cmd_download", "cmd_info"}

\* args.file_id_or_url: an identifier, a URL of a file, and a URL of no
\* supported shape.
CliInputs == {<<"a">>, Https \o DriveFile \o <<"a">>, Https \o DocsForms \o <<"a">>}

\* What the Drive service answers files().get for the file.
RemoteName == <<"r", "?">>
FileMetadata ==
    {[mimeType |-> m, name |-> RemoteName] :
        m \in {GoogleDocument, GoogleSpreadsheet, GooglePresentation, ApplicationPdf}}
    \cup {[name |-> RemoteName]}

\* The document and the spreadsheet behind the file: a document of two tabs
\* and one with none, and a spreadsheet of two sheets.
CliDocuments == {ContentDocument(<<Para(<<Run("c")>>)>>), [title |-> <<"D">>]}
CliSpreadsheet ==
    [properties |-> [title |-> SpreadsheetTitle],
     sheets |-> <<ServiceSheet(1, NoIndex), ServiceSheet(2, 0)>>]

\* The default of the parameter delay_between_sheets.
DefaultDelay == 1

\* main(argv) for one command line. cmd_export passes neither sheet_names nor
\* delay_between_sheets; the spreadsheets are exported with --output out.
CliInit ==
    /\ args \in CommandLines
    /\ cli_pc = "main"
    /\ IF args.command \in TakesFile
       THEN /\ file_id_or_url \in CliInputs
            /\ file_meta \in FileMetadata
            /\ Get(file_meta, "mimeType", <<>>) = GoogleSpreadsheet
                   => args.output = Path(output_dir)
       ELSE file_id_or_url = <<>> /\ file_meta = <<>>
    /\ IF args.command \in TakesFile
          /\ Get(file_meta, "mimeType", <<>>) = GoogleDocument
       THEN document \in CliDocuments
       ELSE document = <<>>
    /\ metadata = CliSpreadsheet
    /\ sheet_names = None /\ delay_between_sheets = DefaultDelay
    /\ id_result = None
    /\ performed = <<>> /\ printed = <<>> /\ main_ret = None
    /\ pc = "idle" /\ sheet_id = 0 /\ max_retries = 0 /\ attempt = 0
    /\ last_error = None /\ sheet_ret = None /\ log = <<>>
    /\ sheets = <<>> /\ idx = 0 /\ exported_files = <<>> /\ files = <<>>
    /\ history = <<>> /\ batch_ret = None
    /\ tab_id = <<>> /\ tabs_ret = None /\ tab_ret = None /\ all_tabs_ret = None
    /\ NameIdle /\ AuthIdle /\ NoLoads

\* Lines 444 to 452: the dispatch to args.func, or the help.
Main ==
    /\ cli_pc = "main"
    /\ IF args.command = "none"
       THEN /\ printed' = <<StdOut("print_help", "usage")>>
            /\ main_ret' = [kind |-> "returned", val |-> 0]
            /\ cli_pc' = "exit"
       ELSE /\ cli_pc' = IF args.command \in TakesFile
                         THEN "extract_file_id" ELSE args.command
            /\ UNCHANGED <<printed, main_ret>>
    /\ UNCHANGED <<args, file_meta, performed, idVars, sheetVars, batchVars, docVars,
                   nameVars, authVars, credential_loads>>

\* What a handler did becomes the state: `return int(args.func(args))`.
Apply(r) ==
    /\ performed' = performed \o r.ops
    /\ printed' = printed \o r.out
    /\ files' = r.files
    /\ credential_loads' = credential_loads + r.loads
    /\ main_ret' = r.ret
    /\ cli_pc' = CASE r.ret # None -> "exit"
                    [] cli_pc = "extract_file_id" -> args.command
                    [] OTHER -> "export_spreadsheet_as_csv"

\* Lines 175, 229 and 241.
ExtractFileIdOfHandler ==
    /\ cli_pc = "extract_file_id"
    /\ id_result' = extract_file_id(file_id_or_url)
    /\ Apply(FileIdOf(id_result', files))
    /\ UNCHANGED <<args, file_meta, file_id_or_url, sheetVars, metadata, sheet_names,
                   delay_between_sheets, sheets, idx, exported_files, history,
                   batch_ret, docVars, nameVars, authVars>>

CmdExport ==
    /\ cli_pc = "cmd_export"
    /\ \E m \in RemoteOutcomes, setup \in AllTabsSetups, single \in ExportDocOutcomes,
          tabs \in [1..Len(TabsOf(document)) -> TabOutcomes] :
          LET r == cmd_export(args, file_meta, document, files,
                              [metadata |-> m, setup |-> setup, single |-> single,
                               tabs |-> tabs])
          IN  /\ Apply(r)
              /\ pc' = IF r.ret = None THEN "batch_start" ELSE pc
    /\ UNCHANGED <<args, file_meta, idVars, sheet_id, max_retries, attempt,
                   last_error, sheet_ret, log, metadata, sheet_names,
                   delay_between_sheets, sheets, idx, exported_files, history,
                   batch_ret, docVars, nameVars, authVars>>

CmdExportSpreadsheetDone ==
    /\ cli_pc = "export_spreadsheet_as_csv"
    /\ pc = "batch_done"
    /\ Apply(cmd_export_after(<<>>, <<>>, files, batch_ret))
    /\ UNCHANGED <<args, file_meta, idVars, sheetVars, metadata, sheet_names,
                   delay_between_sheets, sheets, idx, exported_files, history,
                   batch_ret, docVars, nameVars, authVars>>

CmdDownload ==
    /\ cli_pc = "cmd_download"
    /\ \E o \in DownloadOutcomes :
          Apply(cmd_download(args, file_meta, files, o))
    /\ UNCHANGED <<args, file_meta, idVars, sheetVars, metadata, sheet_names,
                   delay_between_sheets, sheets, idx, exported_files, history,
                   batch_ret, docVars, nameVars, authVars>>

CmdInfo ==
    /\ cli_pc = "cmd_info"
    /\ \E m \in RemoteOutcomes, t \in DocsOutcomes, s \in RemoteOutcomes,
          c \in RemoteOutcomes :
          Apply(cmd_info(args, file_meta, document, files,
                         [metadata |-> m, tabs |-> t, structure |-> s,
                          comments |-> c]))
    /\ UNCHANGED <<args, file_meta, idVars, sheetVars, metadata, sheet_names,
                   delay_between_sheets, sheets, idx, exported_files, history,
                   batch_ret, docVars, nameVars, authVars>>

CmdList ==
    /\ cli_pc = "cmd_list"
    /\ \E o \in RemoteOutcomes : Apply(cmd_list(files, o))
    /\ UNCHANGED <<args, file_meta, idVars, sheetVars, metadata, sheet_names,
                   delay_between_sheets, sheets, idx, exported_files, history,
                   batch_ret, docVars, nameVars, authVars>>

CmdTasks ==
    /\ cli_pc = "cmd_tasks"
    /\ \E o \in RemoteOutcomes : Apply(cmd_tasks(args, files, o))
    /\ UNCHANGED <<args, file_meta, idVars, sheetVars, metadata, sheet_names,
                   delay_between_sheets, sheets, idx, exported_files, history,
                   batch_ret, docVars, nameVars, authVars>>

CliNext ==
    \/ Main
    \/ ExtractFileIdOfHandler
    \/ CmdExport
    \/ BatchStart
    \/ ForSheet
    \/ GetDriveService
    \/ Attempt
    \/ Exhausted
    \/ AfterExport
    \/ BatchReturn
    \/ CmdExportSpreadsheetDone
    \/ CmdDownload
    \/ CmdInfo
    \/ CmdList
    \/ CmdTasks

SpecCli == CliInit /\ [][CliNext]_vars

(***************************************************************************)
(* Properties of export_sheet_as_csv, under SpecSheet and SpecSheetLive.  *)
(***************************************************************************)
Requests(l) == SelectSeq(l, LAMBDA e : e.ev = "request")

Is200(o) == o.t = "response" /\ o.status = 200
Is429(o) == o.t = "response" /\ o.status = 429
IsOtherStatus(o) == o.t = "response" /\ o.status \notin {200, 429}
IsHttpError(o) == o.t = "raise" /\ o.exc = "HttpError"

\* The UTF-8 encoding of a text of code points below 2048.
RECURSIVE Utf8Encode(_)
Utf8Encode(text) ==
    IF text = <<>> THEN <<>>
    ELSE (IF text[1] < 128 THEN <<text[1]>>
          ELSE <<192 + (text[1] \div 64), 128 + (text[1] % 64)>>)
         \o Utf8Encode(Tail(text))

\* b is the UTF-8 encoding of some text (of the letters A and e-acute).
IsUtf8(b) ==
    \E n \in 0..Len(b) : \E text \in [1..n -> {65, 233}] : Utf8Encode(text) = b

\* The failure export_sheet_as_csv raises when its attempts are used up.
AttemptsUsedUp(n, err) ==
    [kind |-> "raised", exc |-> "Exception",
     error |-> [exc |-> "Exception", msg |-> "Failed to export sheet as CSV after",
                attempts |-> n, last_error |-> err]]

\* C1: with the default budget of 5 attempts, N answers of HTTP 429
\* (0 <= N <= 4) followed by a 200 make the function sleep exactly N times,
\* for 2^0, ..., 2^(N-1) seconds in that order, each sleep between a 429 and
\* the next request, and return the body of the 200 decoded as UTF-8.
C1_BackoffThenBody ==
    LET reqs == Requests(log)
        N == Len(reqs) - 1
    IN  (/\ pc = "sheet_done"
         /\ max_retries = 5
         /\ Len(reqs) >= 1
         /\ \A i \in 1..N : Is429(reqs[i].outcome)
         /\ Is200(reqs[N + 1].outcome)
         /\ IsUtf8(reqs[N + 1].outcome.content))
        => /\ N \in 0..4
           /\ Len(log) = 2 * N + 1
           /\ \A i \in 1..N :
                 /\ log[2 * i - 1].ev = "request"
                 /\ Is429(log[2 * i - 1].outcome)
                 /\ log[2 * i] = [ev |-> "sleep", secs |-> 2 ^ (i - 1), why |-> "backoff"]
           /\ log[2 * N + 1].ev = "request"
           /\ sheet_ret.kind = "returned"
           /\ Utf8Encode(sheet_ret.val) = reqs[N + 1].outcome.content

\* Four 429 answers, four sleeps of 1, 2, 4 and 8 seconds, and the body of the
\* fifth answer returned.
C1_Witness ==
    /\ pc = "sheet_done"
    /\ max_retries = 5
    /\ Len(log) = 9
    /\ \A i \in 1..4 : Is429(log[2 * i - 1].outcome) /\ log[2 * i].secs = 2 ^ (i - 1)
    /\ Is200(log[9].outcome)
    /\ sheet_ret.kind = "returned"
    /\ sheet_ret.val = <<65, 233>>

\* C2: when every one of the max_retries attempts ends in a 429 or a caught
\* HttpError, exactly max_retries requests are issued and the function raises
\* one failure that names the attempt count and the error of the last attempt.
C2_ExhaustionNamesLastError ==
    LET reqs == Requests(log)
    IN  (/\ pc = "sheet_done"
         /\ Len(reqs) >= 1
         /\ \A i \in 1..Len(reqs) :
               Is429(reqs[i].outcome) \/ IsHttpError(reqs[i].outcome))
        => /\ Len(reqs) = max_retries
           /\ sheet_ret =
                 AttemptsUsedUp(max_retries,
                     IF Is429(reqs[Len(reqs)].outcome)
                     THEN [exc |-> "Exception", msg |-> "Rate limited (HTTP 429)"]
                     ELSE [exc |-> "HttpError"])

\* The first attempt met an HttpError, the last of at least three a 429, and
\* the failure names the 429.
C2_Witness ==
    LET reqs == Requests(log)
    IN  /\ pc = "sheet_done"
        /\ max_retries >= 3
        /\ Len(reqs) = max_retries
        /\ IsHttpError(reqs[1].outcome)
        /\ Is429(reqs[Len(reqs)].outcome)
        /\ sheet_ret.kind = "raised"
        /\ sheet_ret.error.last_error.exc = "Exception"

\* C3 as stated: a status other than 200 and 429 on an attempt that is not
\* the last is followed by a further attempt.
C3_OtherStatusIsRetried ==
    \A k \in 1..Len(log) :
        (/\ log[k].ev = "request"
         /\ IsOtherStatus(log[k].outcome)
         /\ log[k].attempt < max_retries - 1
         /\ pc = "sheet_done")
        => \E j \in (k + 1)..Len(log) : log[j].ev = "request"

\* C3, amended: a status other than 200 and 429 ends the call at once, on any
\* attempt: the function raises "Failed to export sheet: HTTP <status>", the
\* error is not recorded as last_error, and no sleep or request follows.
C3_OtherStatusRaisesAtOnce ==
    \A k \in 1..Len(log) :
        (log[k].ev = "request" /\ IsOtherStatus(log[k].outcome))
        => /\ k = Len(log)
           /\ pc = "sheet_done"
           /\ sheet_ret =
                 [kind |-> "raised", exc |-> "Exception",
                  error |-> [exc |-> "Exception",
                             msg |-> "Failed to export sheet: HTTP",
                             status |-> log[k].outcome.status]]
           /\ last_error \in {None, [exc |-> "HttpError"],
                              [exc |-> "Exception", msg |-> "Rate limited (HTTP 429)"]}

\* A 429, then a 500 on the second of five attempts: the call is over.
C3_Witness ==
    /\ max_retries = 5
    /\ Len(log) = 3
    /\ Is429(log[1].outcome)
    /\ log[3].ev = "request"
    /\ IsOtherStatus(log[3].outcome)
    /\ log[3].outcome.status = 500
    /\ pc = "sheet_done"
    /\ sheet_ret.kind = "raised"

\* C4: an HttpError on 0-based attempt i is recorded as the last error; if
\* i < max_retries - 1 the function sleeps 2^i seconds and tries again, and on
\* the last attempt it does not sleep and raises the aggregated failure.
C4_HttpErrorSleepsUnlessLast ==
    \A k \in 1..Len(log) :
        (log[k].ev = "request" /\ IsHttpError(log[k].outcome))
        => LET i == log[k].attempt
           IN  /\ (\A j \in (k + 1)..Len(log) : log[j].ev # "request")
                     => last_error = [exc |-> "HttpError"]
               /\ i < max_retries - 1 =>
                     /\ k < Len(log)
                     /\ log[k + 1] = [ev |-> "sleep", secs |-> 2 ^ i, why |-> "backoff"]
                     /\ pc = "sheet_done" =>
                           /\ k + 2 <= Len(log)
                           /\ log[k + 2].ev = "request"
                           /\ log[k + 2].attempt = i + 1
               /\ i >= max_retries - 1 =>
                     /\ k = Len(log)
                     /\ pc = "sheet_done" =>
                           sheet_ret = AttemptsUsedUp(max_retries, [exc |-> "HttpError"])

\* An HttpError on the second attempt was followed by a sleep of 2 seconds,
\* and one on the last attempt by the failure with no sleep.
C4_Witness ==
    /\ pc = "sheet_done"
    /\ max_retries >= 3
    /\ Len(log) >= 4
    /\ IsHttpError(log[3].outcome)
    /\ log[4] = [ev |-> "sleep", secs |-> 2, why |-> "backoff"]
    /\ log[Len(log)].ev = "request"
    /\ IsHttpError(log[Len(log)].outcome)
    /\ log[Len(log)].attempt = max_retries - 1
    /\ sheet_ret.kind = "raised"

\* At most max_retries requests, and nothing after a 200.
AtMostMaxRetriesRequests ==
    /\ Len(Requests(log)) <= max_retries
    /\ \A k \in 1..Len(log) :
          (log[k].ev = "request" /\ Is200(log[k].outcome))
          => k = Len(log) /\ pc = "sheet_done"

\* C5: for every sequence of endpoint outcomes and every max_retries >= 0,
\* export_sheet_as_csv issues at most max_retries requests and then ends by
\* returning or raising; after a 200 it issues no request and does not sleep.
C5_BoundedRequestsAndTermination ==
    /\ []AtMostMaxRetriesRequests
    /\ <>(pc = "sheet_done" /\ sheet_ret.kind \in {"returned", "raised"})

\* The fifth of five requests was answered 200 and the call returned.
C5_Witness ==
    /\ pc = "sheet_done"
    /\ max_retries = 5
    /\ Len(Requests(log)) = 5
    /\ Is200(log[Len(log)].outcome)
    /\ sheet_ret.kind = "returned"

(***************************************************************************)
(* Properties of export_tab_as_markdown, under SpecText.                   *)
(***************************************************************************)
\* p stands before q in document order: at the first place where the two
\* paths differ p has the smaller number (no path here is a prefix of another).
Before(p, q) ==
    \E k \in 1..Len(p) :
        /\ k <= Len(q)
        /\ \A j \in 1..(k - 1) : p[j] = q[j]
        /\ p[k] < q[k]

\* The text runs of a list of structural elements, each with the path that
\* leads to it: <<k, j>> for run j of paragraph k, <<k, r, c>> and then the
\* path inside the cell for table k, row r, cell c.
RECURSIVE TextRuns(_)
TextRuns(structs) ==
    UNION {
        LET e == structs[k]
        IN  IF "paragraph" \in DOMAIN e /\ "elements" \in DOMAIN e["paragraph"]
            THEN LET es == e["paragraph"]["elements"]
                 IN  {[path |-> <<k, j>>,
                       text |-> IF "content" \in DOMAIN es[j]["textRun"]
                                THEN es[j]["textRun"]["content"] ELSE <<>>] :
                         j \in {i \in 1..Len(es) : "textRun" \in DOMAIN es[i]}}
            ELSE IF "table" \in DOMAIN e /\ "tableRows" \in DOMAIN e["table"]
            THEN LET rows == e["table"]["tableRows"]
                     places == UNION {
                         {<<r, c>> : c \in {i \in 1..Len(rows[r]["tableCells"]) :
                                        "content" \in DOMAIN rows[r]["tableCells"][i]}} :
                         r \in {i \in 1..Len(rows) : "tableCells" \in DOMAIN rows[i]}}
                 IN  UNION {{[path |-> <<k, rc[1], rc[2]>> \o inner.path,
                              text |-> inner.text] :
                                inner \in TextRuns(rows[rc[1]]["tableCells"][rc[2]]["content"])} :
                            rc \in places}
            ELSE {}
        : k \in 1..Len(structs)}

\* The texts of a set of runs joined in document order.
RECURSIVE InDocumentOrder(_)
InDocumentOrder(runs) ==
    IF runs = {} THEN <<>>
    ELSE LET first == CHOOSE r \in runs : \A q \in runs \ {r} : Before(r.path, q.path)
         IN  first.text \o InDocumentOrder(runs \ {first})

\* The body of the first tab of the document that carries the id in its
\* tabProperties.
BodyOfTab(doc, id) ==
    LET at == CHOOSE i \in 1..Len(doc["tabs"]) :
                  /\ doc["tabs"][i]["tabProperties"]["tabId"] = id
                  /\ \A j \in 1..(i - 1) : doc["tabs"][j]["tabProperties"]["tabId"] # id
    IN  doc["tabs"][at]["documentTab"]["body"]["content"]

\* C12: the text export_tab_as_markdown returns for a tab is the contents of
\* the text runs of its paragraphs and of the cells of its tables (rows top to
\* bottom, cells left to right, tables inside cells likewise), joined in
\* document order; an element of another kind adds nothing.
C12_TextInDocumentOrder ==
    (tab_ret # None /\ tab_ret.kind = "returned" /\ document \in ContentDocuments) =>
        tab_ret.val = InDocumentOrder(TextRuns(BodyOfTab(document, tab_id)))

\* A table of two rows, with a table inside its first cell, then a paragraph
\* with an inline object: six runs came out in document order.
C12_Witness ==
    /\ tab_ret # None
    /\ tab_ret.kind = "returned"
    /\ document \in ContentDocuments
    /\ Len(BodyOfTab(document, tab_id)) = 2
    /\ "table" \in DOMAIN BodyOfTab(document, tab_id)[1]
    /\ "paragraph" \in DOMAIN BodyOfTab(document, tab_id)[2]
    /\ tab_ret.val = <<"e", "f", "a", "b", "c", "d">>

(***************************************************************************)
(* Properties of list_document_tabs, under SpecTabs.                       *)
(***************************************************************************)
\* The title sources of a tab that are present, in order of preference:
\* tabProperties.title, tabProperties.displayName, title, displayName.
TitleSources(tab) ==
    LET inProps(k) == IF "tabProperties" \in DOMAIN tab /\ k \in DOMAIN tab["tabProperties"]
                      THEN <<tab["tabProperties"][k]>> ELSE <<>>
        own(k) == IF k \in DOMAIN tab THEN <<tab[k]>> ELSE <<>>
    IN  inProps("title") \o inProps("displayName") \o own("title") \o own("displayName")

PositionalLabel(n) ==
    <<"T", "a", "b", " ", <<"1", "2", "3", "4", "5", "6", "7", "8", "9">>[n]>>

\* C13: the tab at 0-based position p gets as title the first of its title
\* sources that is present and not empty, and "Tab <p+1>" when none of the
\* four is present.
C13_TitleIsFirstSourceOrLabel ==
    (tabs_ret # None /\ tabs_ret.kind = "returned"
        /\ "tabs" \in DOMAIN document /\ document["tabs"] # <<>>) =>
        \A i \in 1..Len(document["tabs"]) :
            LET sources == TitleSources(document["tabs"][i])
                filled == {k \in 1..Len(sources) : sources[k] # <<>>}
            IN  /\ i <= Len(tabs_ret.val)
                /\ filled # {} =>
                      tabs_ret.val[i].title =
                          sources[CHOOSE k \in filled : \A j \in filled : k <= j]
                /\ sources = <<>> => tabs_ret.val[i].title = PositionalLabel(i)

\* The third tab has an empty tabProperties.title, no tabProperties.displayName
\* and a title of its own, which it got; the second tab has no source and is
\* "Tab 2".
C13_Witness ==
    /\ tabs_ret # None
    /\ tabs_ret.kind = "returned"
    /\ "tabs" \in DOMAIN document
    /\ Len(document["tabs"]) = 3
    /\ TitleSources(document["tabs"][2]) = <<>>
    /\ TitleSources(document["tabs"][3]) = << <<>>, <<"R">>, <<"S">> >>
    /\ tabs_ret.val[2].title = <<"T", "a", "b", " ", "2">>
    /\ tabs_ret.val[3].title = <<"R">>

\* The tabs the document reports: none when the key is missing.
ReportedTabs(doc) == IF "tabs" \in DOMAIN doc THEN doc["tabs"] ELSE <<>>

\* The entry is the one made of the tab that stands at 0-based position p: it
\* carries the tab's id (the positional id when the tab has none) and the
\* tab's index (the position when the tab has none).
EntryOfTab(entry, tab, p) ==
    LET props == IF "tabProperties" \in DOMAIN tab THEN tab["tabProperties"] ELSE <<>>
    IN  /\ ("tabId" \in DOMAIN props /\ props["tabId"] # <<>>) =>
               entry.tabId = props["tabId"]
        /\ ("tabId" \notin DOMAIN props /\ "tabId" \in DOMAIN tab) =>
               entry.tabId = tab["tabId"]
        /\ ("tabId" \notin DOMAIN props /\ "tabId" \notin DOMAIN tab) =>
               entry.tabId = <<"t", "a", "b", "_", <<"0", "1", "2", "3", "4", "5">>[p + 1]>>
        /\ entry.index = IF "index" \in DOMAIN props THEN props["index"] ELSE p

\* C14: list_document_tabs never returns an empty list: for a document that
\* reports no tabs it returns one default tab with the document's title
\* ('Untitled' when the document has none), otherwise one entry per reported
\* tab, in the reported order.
C14_OneEntryPerTabOrDefault ==
    (tabs_ret # None /\ tabs_ret.kind = "returned") =>
        LET reported == ReportedTabs(document)
            listed == tabs_ret.val
        IN  /\ listed # <<>>
            /\ reported = <<>> =>
                  /\ Len(listed) = 1
                  /\ listed[1].tabId = <<"d", "e", "f", "a", "u", "l", "t">>
                  /\ listed[1].title =
                         IF "title" \in DOMAIN document THEN document["title"]
                         ELSE <<"U", "n", "t", "i", "t", "l", "e", "d">>
            /\ reported # <<>> =>
                  /\ Len(listed) = Len(reported)
                  /\ \A i \in 1..Len(reported) : EntryOfTab(listed[i], reported[i], i - 1)

\* A document without a title and with an empty list of tabs gave the one
\* default tab, titled 'Untitled'.
C14_Witness ==
    /\ tabs_ret # None
    /\ tabs_ret.kind = "returned"
    /\ "title" \notin DOMAIN document
    /\ "tabs" \in DOMAIN document /\ document["tabs"] = <<>>
    /\ Len(tabs_ret.val) = 1
    /\ tabs_ret.val[1].title = <<"U", "n", "t", "i", "t", "l", "e", "d">>
    /\ tabs_ret.val[1].isDefault

(***************************************************************************)
(* Properties of the path segments made of remote titles, under SpecName.  *)
(***************************************************************************)
NineCharacters == {"<", ">", ":", "\"", "/", "\\", "|", "?", "*"}

\* safe is title with each of the nine characters replaced by "_" and every
\* other character kept in place.
IsSanitized(safe, title) ==
    /\ Len(safe) = Len(title)
    /\ \A k \in 1..Len(title) :
           /\ title[k] \in NineCharacters => safe[k] = "_"
           /\ title[k] \notin NineCharacters => safe[k] = title[k]
    /\ \A k \in 1..Len(safe) : safe[k] \notin NineCharacters

\* What each site puts after the sanitized title.
FixedEndings(site) ==
    CASE site = "spreadsheet directory" -> {<<>>}
      [] site = "sheet file" -> {<<".", "c", "s", "v">>}
      [] site = "document file" ->
            {<<".", "m", "d">>, <<".", "e", "x", "p", "o", "r", "t", "e", "d", ".", "m", "d">>}
      [] site = "tab file" -> {<<".", "e", "x", "p", "o", "r", "t", "e", "d", ".", "m", "d">>}
      [] site = "downloaded file" -> {<<>>}

\* C15: at each place where a remote title becomes a path segment, the
\* segment is the title with every one of < > : " / \ | ? * replaced by "_"
\* and every other character kept in place (same length, none of the nine
\* left), followed by the fixed ending of the place; a tab file of a document
\* of several tabs holds the document's and the tab's title sanitized so.
C15_TitlesAreSanitizedInPlace ==
    path_segment # None =>
        LET name == path_segment.name
            n == Len(remote_title)
        IN  /\ Len(name) >= n
            /\ IsSanitized(SubSeq(name, 1, n), remote_title)
            /\ IF path_segment.site = "tab file" /\ ~path_segment.one_tab
               THEN LET m == Len(path_segment.tab_title)
                    IN  /\ Len(name) = n + 3 + m + 12
                        /\ SubSeq(name, n + 1, n + 3) = <<" ", "-", " ">>
                        /\ IsSanitized(SubSeq(name, n + 4, n + 3 + m),
                                       path_segment.tab_title)
                        /\ SubSeq(name, n + 4 + m, Len(name))
                               \in FixedEndings("tab file")
               ELSE SubSeq(name, n + 1, Len(name)) \in FixedEndings(path_segment.site)

\* A downloaded file named with a backslash and a quotation mark got two
\* underscores.
C15_Witness ==
    /\ path_segment # None
    /\ path_segment.site = "downloaded file"
    /\ remote_title = <<"\\", "\"">>
    /\ path_segment.name = <<"_", "_">>

(***************************************************************************)
(* Properties of get_authenticated_credentials and revoke_credentials,     *)
(* under SpecAuth.                                                         *)
(***************************************************************************)
Did(event) == \E k \in 1..Len(auth_events) : auth_events[k] = event

FlowEvents == {"from_client_secrets_file", "run_local_server", "fetch_token", "authorized"}

\* The token file holds a credential that is usable as it stands.
StoredIsValid ==
    /\ token_file.kind = "creds"
    /\ token_file.creds.token # 0
    /\ now < token_file.creds.expiry

\* The token file holds a credential that is not valid and that a refresh can
\* be tried for.
StoredIsRefreshable ==
    /\ token_file.kind = "creds"
    /\ ~StoredIsValid
    /\ now >= token_file.creds.expiry
    /\ token_file.creds.refresh_token

\* C18: a call that finds no usable stored credential (no token file, or a
\* credential that is invalid and cannot be refreshed, or one whose refresh
\* failed) and no client-secret file raises FileNotFoundError with the setup
\* instructions, does not start the interactive flow and leaves the token
\* file as it was.
C18_NoSecretNoFlow ==
    [][ ( /\ GetAuthenticatedCredentials
          /\ ~client_secret
          /\ \/ token_file = Absent
             \/ token_file.kind = "creds" /\ ~StoredIsValid /\ ~StoredIsRefreshable
             \/ StoredIsRefreshable /\ Did("refresh failed")' )
        => ( /\ auth_ret'.kind = "raised"
             /\ auth_ret'.exc = "FileNotFoundError"
             /\ auth_ret'.msg = "FIRST-TIME SETUP REQUIRED"
             /\ \A k \in 1..Len(auth_events') : auth_events'[k] \notin FlowEvents
             /\ token_file' = token_file ) ]_vars

\* An expired credential with a refresh token was stored, its refresh failed,
\* and without a client-secret file the call raised FileNotFoundError; the
\* token file still holds the credential.
C18_Witness ==
    /\ auth_ret # None
    /\ auth_ret.op = "get_authenticated_credentials"
    /\ ~client_secret
    /\ StoredIsRefreshable
    /\ Did("refresh failed")
    /\ auth_ret.kind = "raised"
    /\ auth_ret.exc = "FileNotFoundError"

\* Every save_credentials of the last call came after a refresh that
\* succeeded or an authorization that was completed.
SavesFollowRefreshOrFlow ==
    \A k \in 1..Len(auth_events) :
        auth_events[k] \in {"save_credentials", "write token.json"} =>
            \E j \in 1..(k - 1) : auth_events[j] \in {"refreshed", "authorized"}

\* C19: the token file is written only after a successful refresh or a
\* completed interactive authorization, and removed only by
\* revoke_credentials; a call that finds a valid stored credential returns it
\* without a refresh, without the flow and without a write.
C19_TokenFileWrittenOnlyAfterRefreshOrFlow ==
    [][ /\ token_file' # token_file =>
               \/ RevokeCredentials /\ token_file' = Absent
               \/ /\ GetAuthenticatedCredentials
                  /\ token_file' # Absent
                  /\ Did("write token.json")'
        /\ GetAuthenticatedCredentials => SavesFollowRefreshOrFlow'
        /\ (GetAuthenticatedCredentials /\ Did("refresh")') => StoredIsRefreshable
        /\ (GetAuthenticatedCredentials /\ StoredIsValid) =>
               /\ auth_ret'.kind = "returned"
               /\ auth_ret'.val = token_file.creds
               /\ auth_events' = <<"load_credentials", "read token.json">>
               /\ token_file' = token_file ]_vars

\* A valid stored credential was returned as it is; the call only loaded it.
C19_Witness ==
    /\ auth_ret # None
    /\ auth_ret.op = "get_authenticated_credentials"
    /\ auth_ret.kind = "returned"
    /\ StoredIsValid
    /\ auth_ret.val = token_file.creds
    /\ auth_events = <<"load_credentials", "read token.json">>
    /\ issued = 1

LastWas(op) == auth_ret # None /\ auth_ret.op = op

\* C21: a call of revoke_credentials leaves no token file, whether there was
\* one or not, and leaves the client-secret file as it was; revoking what is
\* already revoked changes nothing; and the call of
\* get_authenticated_credentials that follows a revocation returns only a
\* credential which an interactive authorization issued during that call.
C21_RevokeDeletesAndForcesAuthorization ==
    /\ [](revoke_credentials(revoke_credentials(token_file))
            = revoke_credentials(token_file))
    /\ [][/\ RevokeCredentials =>
                /\ token_file' = Absent
                /\ client_secret' = client_secret
                /\ token_file = Absent => token_file' = token_file
          /\ (GetAuthenticatedCredentials /\ LastWas("revoke_credentials")
                /\ auth_ret'.kind = "returned") =>
                /\ \E k \in 1..Len(auth_events') : auth_events'[k] = "authorized"
                /\ auth_ret'.val.token = issued + 1
                /\ ~ \E k \in 1..Len(auth_events') : auth_events'[k] = "read token.json"]_vars

\* A revocation removed an existing token file, in a
\* configuration with a client-secret file.
C21_Witness ==
    /\ LastWas("revoke_credentials")
    /\ auth_events = <<"unlink token.json">>
    /\ token_file = Absent
    /\ client_secret

DidNext(event) == \E k \in 1..Len(auth_events') : auth_events'[k] = event

\* C30: whenever get_authenticated_credentials returns, the token file holds
\* the credential it returned: the file is untouched when the stored
\* credential was valid, it holds the refreshed credential after a refresh
\* that succeeded and was saved, and the newly issued one after interactive
\* authorization; after a failed refresh the credential returned is never
\* the stale one but one that the authorization issued.
C30_ReturnedCredentialIsStored ==
    [][(GetAuthenticatedCredentials /\ auth_ret'.kind = "returned") =>
          /\ token_file' = Stored(auth_ret'.val)
          /\ StoredIsValid =>
                /\ token_file' = token_file
                /\ issued' = issued
                /\ ~DidNext("write token.json")
          /\ ~StoredIsValid => auth_ret'.val.token = issued' /\ issued' > issued
          /\ (DidNext("refreshed") /\ ~DidNext("authorized")) =>
                auth_ret'.val = Issue(issued + 1, now, TRUE)
          /\ DidNext("authorized") => auth_ret'.val = Issue(issued', now, TRUE)
          /\ DidNext("refresh failed") =>
                /\ DidNext("authorized")
                /\ auth_ret'.val # token_file.creds]_vars

\* A refresh failed, the interactive authorization followed, and the call
\* returned the credential it issued, which the token file now holds.
C30_Witness ==
    /\ LastWas("get_authenticated_credentials")
    /\ auth_ret.kind = "returned"
    /\ Did("refresh failed") /\ Did("authorized")
    /\ token_file = Stored(auth_ret.val)
    /\ auth_ret.val.token = issued

(***************************************************************************)
(* Properties of export_all_tabs, under SpecAllTabs.                       *)
(***************************************************************************)
AllTabsReturned == all_tabs_ret # None /\ all_tabs_ret.kind = "returned"

\* The places in `performed` where a tab's export was attempted, and the
\* p-th of them.
TabAttempts ==
    {k \in 1..Len(performed) : performed[k].op = "export_tab_as_markdown"}
AttemptOf(p) ==
    CHOOSE k \in TabAttempts : Cardinality({j \in TabAttempts : j <= k}) = p

\* The p-th tab's export returned and its file was written.
Written(p) ==
    LET k == AttemptOf(p)
    IN  /\ ~performed[k].raised
        /\ k < Len(performed)
        /\ performed[k + 1].op = "write_text"
        /\ ~performed[k + 1].raised

ListedTabs == TabsOf(document)

\* The path of the p-th listed tab's file.
PathOfTab(p) ==
    LET safe == Sanitize(Get(document, "title", DefaultDocumentName))
        ending == <<".", "e", "x", "p", "o", "r", "t", "e", "d", ".", "m", "d">>
    IN  output_dir \o <<"/">>
        \o (IF Len(ListedTabs) = 1
            THEN safe \o ending
            ELSE safe \o <<" ", "-", " ">> \o Sanitize(ListedTabs[p].title) \o ending)

\* C23: when export_all_tabs returns, it has attempted every listed tab; the
\* returned list holds, in tab order, the paths of exactly the tabs whose
\* export returned and whose file was written; each other tab has one
\* warning, in tab order; and the files are those of the list.
C23_FailedTabsAreSkipped ==
    AllTabsReturned =>
        LET n == Len(ListedTabs)
            exported == SelectSeq([p \in 1..n |-> p], Written)
            skipped == SelectSeq([p \in 1..n |-> p], LAMBDA p : ~Written(p))
        IN  /\ Cardinality(TabAttempts) = n
            /\ all_tabs_ret.val = [k \in 1..Len(exported) |-> PathOfTab(exported[k])]
            /\ printed = [k \in 1..Len(skipped) |->
                             StdOut("Warning: Failed to export tab",
                                    ListedTabs[skipped[k]].title)]
            /\ DOMAIN files = {PathOfTab(exported[k]) : k \in 1..Len(exported)}

\* Of two tabs the first failed and the second was exported after it.
C23_Witness ==
    /\ AllTabsReturned
    /\ Len(ListedTabs) = 2
    /\ ~Written(1) /\ Written(2)
    /\ all_tabs_ret.val = <<PathOfTab(2)>>
    /\ Len(printed) = 1

\* C26: when export_all_tabs has returned, every tab that list_document_tabs
\* lists for the document, the synthesized "default" tab and a tab with the
\* fallback id "tab_<i>" among them, is found by export_tab_as_markdown under
\* its listed id once the document is retrieved; and when no tab's retrieval
\* or write failed the returned list has one path for each listed tab.
C26_ListedTabsAreFound ==
    AllTabsReturned =>
        /\ \A p \in 1..Len(ListedTabs) :
              export_tab_as_markdown(document, ListedTabs[p].tabId, "ok").kind
                  = "returned"
        /\ printed = <<>> => Len(all_tabs_ret.val) = Len(ListedTabs)

(***************************************************************************)
(* Properties of list_sheets and export_spreadsheet_as_csv (SpecBatch).    *)
(***************************************************************************)
\* The loop over the sheets has begun (the metadata, the directory and the
\* filter raised nothing).
LoopEntered == idx >= 1
InIteration == pc \in {"get_drive_service", "for_attempt", "sheet_done"}
IsDelay(x) == x.ev = "sleep" /\ x.why = "delay"

\* The paths of the finished sheets whose export returned and whose file was
\* written, in the order of the sheets.
PathsOfSucceeded ==
    LET done == SelectSeq(history, LAMBDA h : h.succeeded)
    IN  [k \in 1..Len(done) |-> filepath(metadata, [title |-> done[k].title])]

\* C6: export_spreadsheet_as_csv returns the paths of exactly the sheets whose
\* export and file write succeeded, in enumeration order; a sheet whose export
\* raises is skipped with a warning, adds no path and does not keep a later
\* sheet from being exported.
C6_PathsOfSucceededSheets ==
    LoopEntered =>
        /\ exported_files = PathsOfSucceeded
        /\ \A k \in 1..Len(history) :
              /\ history[k].gid = sheets[k].sheetId
              /\ history[k].outcome =
                    IF history[k].succeeded THEN "exported" ELSE "warned"
        /\ pc = "batch_done" =>
              /\ Len(history) = Len(sheets)
              /\ batch_ret = [kind |-> "returned", val |-> PathsOfSucceeded]

\* Of three sheets the second raised: the result holds the paths of the first
\* and the third.
C6_Witness ==
    /\ pc = "batch_done"
    /\ Len(sheets) = 3
    /\ Len(history) = 3
    /\ history[1].outcome = "exported"
    /\ ~history[2].succeeded
    /\ history[2].outcome = "warned"
    /\ history[3].outcome = "exported"
    /\ batch_ret.kind = "returned"
    /\ batch_ret.val = <<filepath(metadata, sheets[1]), filepath(metadata, sheets[3])>>

\* C7: over k selected sheets with delay d > 0 there are exactly k - 1
\* inter-sheet sleeps of d seconds, one right before the first request of each
\* sheet but the first, whatever the sheet before did; none before the first
\* sheet, and none when d <= 0.
C7_DelayBeforeEachSheetButTheFirst ==
    LET d == delay_between_sheets
        due(k) == IF k > 1 /\ d > 0
                  THEN <<[ev |-> "sleep", secs |-> d, why |-> "delay"]>>
                  ELSE <<>>
    IN  LoopEntered =>
        /\ \A k \in 1..Len(history) : history[k].delays = due(k)
        /\ InIteration =>
              /\ SelectSeq(log, IsDelay) = due(idx)
              /\ \A j \in 1..Len(log) :
                    IsDelay(log[j]) =>
                        /\ j = 1
                        /\ Len(log) >= 2 => (log[2].ev = "request" /\ log[2].attempt = 0)
              /\ \A j \in 1..Len(log) :
                    (log[j].ev = "request" /\ log[j].attempt = 0) => j = Len(due(idx)) + 1
        /\ (pc = "batch_done" /\ batch_ret.kind = "returned") =>
              /\ Len(history) = Len(sheets)
              /\ Len(sheets) >= 1 =>
                    Cardinality({k \in 1..Len(history) : history[k].delays # <<>>})
                        = IF d > 0 THEN Len(sheets) - 1 ELSE 0

\* Three sheets with a delay of 2 seconds: the first failed, the second was
\* exported, and the second and the third each had one sleep of 2 seconds.
C7_Witness ==
    /\ pc = "batch_done"
    /\ batch_ret.kind = "returned"
    /\ delay_between_sheets = 2
    /\ Len(history) = 3
    /\ history[1].outcome = "warned"
    /\ history[1].delays = <<>>
    /\ history[2].outcome = "exported"
    /\ history[2].delays = <<[ev |-> "sleep", secs |-> 2, why |-> "delay"]>>
    /\ history[3].delays = <<[ev |-> "sleep", secs |-> 2, why |-> "delay"]>>

\* The place in the service's order of the sheet with this sheetId, and the
\* index the service gave it (0 when it gave none).
ServicePlace(gid) ==
    CHOOSE p \in 1..Len(metadata.sheets) : metadata.sheets[p].properties.sheetId = gid
ServiceIndex(gid) ==
    LET props == metadata.sheets[ServicePlace(gid)].properties
    IN  IF "index" \in DOMAIN props THEN props.index ELSE 0

\* The sheets the caller selected: all when sheet_names is None.
Selected(p) ==
    \/ sheet_names = None
    \/ \E n \in 1..Len(sheet_names.items) :
          sheet_names.items[n] = metadata.sheets[p].properties.title

AtLoopHead == pc \in {"for_sheet", "batch_done"}

\* C8: list_sheets returns one record per sheet by non-decreasing index (a
\* missing index counts as 0, equal indexes keep the service's order), and
\* export_spreadsheet_as_csv exports the sheets in that order, every request
\* of one sheet before the first request of the next.
C8_SheetsInIndexOrderOneAtATime ==
    LoopEntered =>
        /\ AtLoopHead =>
              /\ \A p \in 1..Len(metadata.sheets) :
                    Selected(p) =>
                        \E k \in 1..Len(sheets) :
                            sheets[k] =
                                [sheetId |-> metadata.sheets[p].properties.sheetId,
                                 title |-> metadata.sheets[p].properties.title,
                                 index |-> ServiceIndex(metadata.sheets[p].properties.sheetId)]
              /\ Len(sheets) = Cardinality({p \in 1..Len(metadata.sheets) : Selected(p)})
              /\ \A k, l \in 1..Len(sheets) :
                    k < l =>
                        \/ sheets[k].index < sheets[l].index
                        \/ /\ sheets[k].index = sheets[l].index
                           /\ ServicePlace(sheets[k].sheetId) < ServicePlace(sheets[l].sheetId)
        /\ \A k \in 1..Len(history) : history[k].gid = sheets[k].sheetId
        /\ InIteration =>
              /\ Len(history) = idx - 1
              /\ \A j \in 1..Len(log) :
                    log[j].ev = "request" => log[j].gid = sheets[idx].sheetId
        /\ (pc = "batch_done" /\ batch_ret.kind = "returned") =>
              Len(history) = Len(sheets)

\* The service lists three sheets with the indexes 1, none and 0: they were
\* exported second, third (the tie with index 0 keeps the service's order)
\* and first.
C8_Witness ==
    /\ pc = "batch_done"
    /\ batch_ret.kind = "returned"
    /\ sheet_names = None
    /\ Len(metadata.sheets) = 3
    /\ "index" \in DOMAIN metadata.sheets[1].properties
    /\ "index" \notin DOMAIN metadata.sheets[2].properties
    /\ "index" \in DOMAIN metadata.sheets[3].properties
    /\ metadata.sheets[1].properties.index = 1
    /\ metadata.sheets[3].properties.index = 0
    /\ Len(history) = 3
    /\ history[1].gid = 2 /\ history[2].gid = 3 /\ history[3].gid = 1

(***************************************************************************)
(* Properties of extract_file_id, under SpecId.                            *)
(***************************************************************************)
HasUrlChar(s) == \E i \in 1..Len(s) : s[i] \in {"/", ":", "?", "#"}

\* t is s without its leading and trailing whitespace.
IsTrimOf(t, s) ==
    \E i \in 1..(Len(s) + 1), j \in 0..Len(s) :
        /\ t = SubSeq(s, i, j)
        /\ \A k \in 1..(i - 1) : s[k] \in {" ", "\t", "\n", "\r"}
        /\ \A k \in (j + 1)..Len(s) : s[k] \in {" ", "\t", "\n", "\r"}
        /\ t # <<>> => /\ t[1] \notin {" ", "\t", "\n", "\r"}
                       /\ t[Len(t)] \notin {" ", "\t", "\n", "\r"}

\* C9: for an input with none of the characters / : ? #, extract_file_id
\* returns the input without its leading and trailing whitespace, and does
\* not raise.
C9_BareIdentifierIsTrimmed ==
    (id_result # None /\ ~HasUrlChar(file_id_or_url)) =>
        /\ id_result.kind = "returned"
        /\ IsTrimOf(id_result.val, file_id_or_url)

\* A bare identifier with whitespace on both sides and inside has been trimmed.
C9_Witness ==
    /\ id_result # None
    /\ ~HasUrlChar(file_id_or_url)
    /\ id_result.kind = "returned"
    /\ Len(id_result.val) >= 3
    /\ Len(id_result.val) + 2 <= Len(file_id_or_url)
    /\ " " \in Chars(id_result.val)

IdentifierChars == LowerCase \cup UpperCase \cup Digits \cup {"-", "_"}

\* The maximal run of identifier characters of s that starts at `from`.
MaximalRun(s, from) ==
    SubSeq(s, from,
           CHOOSE j \in from..Len(s) :
               /\ \A k \in from..j : s[k] \in IdentifierChars
               /\ j = Len(s) \/ s[j + 1] \notin IdentifierChars)

\* The identifier segments of s: for each place where the prefix of a
\* supported URL shape stands before an identifier character, the maximal run
\* of identifier characters right after the prefix.
IdentifierSegments(s) ==
    {MaximalRun(s, x[2] + Len(x[1])) :
        x \in {y \in SupportedShapes \X (1..Len(s)) :
                  /\ LiteralAt(s, y[2], y[1])
                  /\ y[2] + Len(y[1]) <= Len(s)
                  /\ s[y[2] + Len(y[1])] \in IdentifierChars}}

\* C10: an input that holds a supported URL shape gives the identifier
\* segment of such a shape (the maximal run of letters, digits, - and _ after
\* the prefix); an input with a URL character and no shape raises a
\* ValueError that lists supported formats.
C10_UrlShapesGiveTheSegment ==
    id_result # None =>
        LET segments == IdentifierSegments(file_id_or_url)
        IN  /\ segments # {} =>
                  /\ id_result.kind = "returned"
                  /\ id_result.val \in segments
            /\ (HasUrlChar(file_id_or_url) /\ segments = {}) =>
                  /\ id_result.kind = "raised"
                  /\ id_result.exc = "ValueError"
                  /\ {"Google Docs", "Google Sheets", "Google Slides",
                      "Google Drive"} \subseteq id_result.formats

\* A full https URL of one shape, with a path after the identifier, gave its
\* two-character identifier.
C10_Witness ==
    /\ id_result # None
    /\ id_result.kind = "returned"
    /\ LiteralAt(file_id_or_url, 1, Https)
    /\ IdentifierSegments(file_id_or_url) = {id_result.val}
    /\ Len(id_result.val) = 2
    /\ "-" \in Chars(id_result.val)
    /\ Len(file_id_or_url) > Len(Https) + Len(DriveFile) + 2

\* The URL shapes in their fixed order: docs.google.com, file/d, open?id,
\* drive/folders.
ShapesInOrder == <<{DocsDocument, DocsSpreadsheets, DocsPresentation},
                   {DriveFile}, {DriveOpen}, {DriveFolders}>>

\* The places of s where a shape of the n-th kind stands before an identifier
\* character.
PlacesOf(s, n) ==
    {y \in ShapesInOrder[n] \X (1..Len(s)) :
        /\ LiteralAt(s, y[2], y[1])
        /\ y[2] + Len(y[1]) <= Len(s)
        /\ s[y[2] + Len(y[1])] \in IdentifierChars}

\* The capture of the n-th kind in s: the identifier segment at the leftmost
\* of its places.
CaptureOf(s, n) ==
    LET first == CHOOSE y \in PlacesOf(s, n) :
                     \A z \in PlacesOf(s, n) : y[2] <= z[2]
    IN  MaximalRun(s, first[2] + Len(first[1]))

\* C11: when an input with a URL character holds shapes of more than one
\* kind, extract_file_id returns the capture of the kind that comes first in
\* the fixed order, wherever in the input each of them stands.
C11_FirstPatternInOrderWins ==
    id_result # None =>
        LET s == file_id_or_url
            kinds == {n \in 1..4 : PlacesOf(s, n) # {}}
        IN  Cardinality(kinds) > 1 =>
                /\ id_result.kind = "returned"
                /\ id_result.val =
                       CaptureOf(s, CHOOSE n \in kinds : \A m \in kinds : n <= m)

\* A drive.google.com/file/d link stands at the start of the input and a
\* docs.google.com link after it; the result is the identifier of the latter.
C11_Witness ==
    /\ id_result # None
    /\ PlacesOf(file_id_or_url, 1) # {}
    /\ PlacesOf(file_id_or_url, 2) # {}
    /\ \A y \in PlacesOf(file_id_or_url, 1), z \in PlacesOf(file_id_or_url, 2) :
           z[2] < y[2]
    /\ id_result.kind = "returned"
    /\ id_result.val = <<"q">>
    /\ CaptureOf(file_id_or_url, 2) # <<"q">>

(***************************************************************************)
(* Properties of main and the command handlers, under SpecCli.             *)
(***************************************************************************)
AtExit == cli_pc = "exit"
Performed(name) == \E k \in 1..Len(performed) : performed[k].op = name
Failed(name) ==
    \E k \in 1..Len(performed) : performed[k].op = name /\ performed[k].raised
Succeeded(name) ==
    \E k \in 1..Len(performed) : performed[k].op = name /\ ~performed[k].raised
Exit(code) == main_ret = [kind |-> "returned", val |-> code]

\* The type of the file begins with the characters of
\* "application/vnd.google-apps.".
NativeFile ==
    /\ "mimeType" \in DOMAIN file_meta
    /\ Len(file_meta.mimeType) >= Len(GoogleApps)
    /\ \A i \in 1..Len(GoogleApps) : file_meta.mimeType[i] = GoogleApps[i]

UseExport == "This is a Google file. Use 'export' command with appropriate format."

\* C17: when cmd_download is over for a file whose MIME type starts with
\* "application/vnd.google-apps.", it has returned 1, no media request was
\* built or sent (files.get_media, next_chunk), no output file was opened
\* (io.FileIO) and no file exists that did not before; and once download_file
\* had the metadata, the error printed is the one that names the export
\* command.
C17_NativeFileIsRefusedBeforeAnyDownload ==
    (AtExit /\ args.command = "cmd_download" /\ NativeFile) =>
        /\ Exit(1)
        /\ ~Performed("files.get_media")
        /\ ~Performed("next_chunk")
        /\ ~Performed("mkdir")
        /\ ~Performed("io.FileIO")
        /\ files = <<>>
        /\ Succeeded("files.get") =>
              /\ Failed("download_file")
              /\ printed = <<StdErr("Error", Error("Exception", UseExport))>>

\* A download of a Google presentation was refused after its metadata came.
C17_Witness ==
    /\ AtExit /\ args.command = "cmd_download" /\ NativeFile
    /\ file_meta.mimeType = GooglePresentation
    /\ Succeeded("files.get")
    /\ Failed("download_file")
    /\ Exit(1)

AnyFailed == \E k \in 1..Len(performed) : performed[k].raised
PrintedError ==
    \E k \in 1..Len(printed) : printed[k].stream = "stderr" /\ printed[k].text = "Error"
PrintedNote(text) ==
    \E k \in 1..Len(printed) : printed[k].stream = "stdout" /\ printed[k].text = text

\* C16 as stated: when a handler is over, any operation that raised inside it
\* has led to an error on the error stream and a non-zero exit code, a return
\* of 0 means that no operation failed, and main returned.
C16_AnyFailureIsAnErrorExit ==
    AtExit =>
        /\ main_ret.kind = "returned"
        /\ AnyFailed => PrintedError /\ main_ret.val # 0
        /\ Exit(0) => ~AnyFailed

\* What a handler calls in its outer try block alone: cmd_info calls
\* list_document_tabs, get_document_structure and list_comments in try blocks
\* of their own, and export_all_tabs and export_spreadsheet_as_csv catch what
\* a single tab or sheet raises.
OuterCalls ==
    {"extract_file_id", "get_file_metadata", "export_spreadsheet_as_csv",
     "export_all_tabs", "export_google_doc_as_markdown", "download_file",
     "list_files", "list_tasks", "list_task_lists", "raise"}
OuterFailed ==
    \E k \in 1..Len(performed) : performed[k].op \in OuterCalls /\ performed[k].raised

\* C16, amended: when main is over it has returned 0 or 1, never raised. It
\* returned 1 exactly when an operation of the handler's outer try block
\* raised, and then the last thing printed is "Error: ..." on the error
\* stream; otherwise no "Error: ..." was printed. In cmd_info a failure of the
\* document structure or of the comments is printed as a note on the standard
\* output and leaves the exit code alone.
C16_OuterFailureIsAnErrorExit ==
    AtExit =>
        /\ main_ret.kind = "returned" /\ main_ret.val \in {0, 1}
        /\ Exit(1) <=> OuterFailed
        /\ Exit(1) <=> PrintedError
        /\ Exit(1) => LET last == printed[Len(printed)]
                      IN  last.stream = "stderr" /\ last.text = "Error"
        /\ args.command = "cmd_info" =>
              /\ (Failed("list_document_tabs") \/ Failed("get_document_structure"))
                    => PrintedNote("Note: Could not retrieve document structure")
              /\ Failed("list_comments")
                    => PrintedNote("Note: Could not retrieve comments")

\* export_spreadsheet_as_csv raised inside cmd_export, and main returned 1
\* after the error was printed.
C16_Witness ==
    /\ AtExit /\ args.command = "cmd_export"
    /\ Failed("export_spreadsheet_as_csv")
    /\ PrintedError
    /\ Exit(1)

\* The invocation ran to its end with nothing raised.
CleanExit == AtExit /\ Exit(0) /\ ~AnyFailed

\* The tabs list_document_tabs reports for the document: its tabs, or the
\* default tab.
NumberOfTabs ==
    IF "tabs" \in DOMAIN document /\ document["tabs"] # <<>>
    THEN Len(document["tabs"]) ELSE 1

\* The service acquisitions of a command that runs to its end: each of
\* get_file_metadata, list_comments, list_files, list_tasks, list_task_lists,
\* get_document_details, get_spreadsheet_metadata, export_sheet_as_csv and
\* export_tab_as_markdown makes one, export_google_doc_as_markdown and
\* download_file one besides that of get_file_metadata.
Acquisitions ==
    LET mime == Get(file_meta, "mimeType", <<>>)
    IN  CASE args.command = "cmd_export" /\ mime = GoogleSpreadsheet ->
                1 + 2 + Len(metadata.sheets)
          [] args.command = "cmd_export" /\ args.all_tabs -> 1 + 2 + NumberOfTabs
          [] args.command = "cmd_export" -> 1 + 2
          [] args.command = "cmd_download" -> 2
          [] args.command = "cmd_info" ->
                1 + (IF args.verbose /\ mime = GoogleDocument THEN 2 ELSE 0)
                  + (IF args.verbose \/ args.show_comments THEN 1 ELSE 0)
          [] args.command \in {"cmd_list", "cmd_tasks"} -> 1
          [] OTHER -> 0

\* C20 as stated: the token file is loaded at most once during an invocation,
\* and exactly once by the end of a command that went through.
C20_CredentialRecordReadOnce ==
    /\ credential_loads <= 1
    /\ (CleanExit /\ args.command # "none") => credential_loads = 1

\* C20, amended: the token file is loaded once for every service acquisition,
\* not once for the invocation. When a command ran to its end with nothing
\* raised, list and tasks have loaded it once, download twice, the export of
\* a document three times and of all its tabs three times and once per tab,
\* the export of a spreadsheet three times and once per sheet, and info once
\* and once more for each of its tabs, headings and comments requests; and
\* whenever an invocation got to a remote request it has loaded it.
C20_CredentialRecordReadPerAcquisition ==
    /\ CleanExit => credential_loads = Acquisitions
    /\ (AtExit /\ Exit(0) /\ args.command = "cmd_export") =>
           credential_loads = Acquisitions
    /\ Performed("get_file_metadata") \/ Performed("list_files")
          \/ Performed("list_tasks") \/ Performed("list_task_lists")
          => credential_loads >= 1

\* The export of a spreadsheet of two sheets went through after five loads.
C20_Witness ==
    /\ CleanExit /\ args.command = "cmd_export"
    /\ Get(file_meta, "mimeType", <<>>) = GoogleSpreadsheet
    /\ Len(metadata.sheets) = 2
    /\ Len(exported_files) = 2
    /\ credential_loads = 5

PrintedOn(stream, text) ==
    \E k \in 1..Len(printed) : printed[k].stream = stream /\ printed[k].text = text

\* A Google Doc exported with neither --output nor --all-tabs, the export
\* routine having returned.
SingleDocumentNoOutput ==
    /\ AtExit /\ args.command = "cmd_export"
    /\ Get(file_meta, "mimeType", <<>>) = GoogleDocument
    /\ args.output = None /\ ~args.all_tabs
    /\ Succeeded("export_google_doc_as_markdown")

\* C22: when `export` of a Google Doc with neither --output nor --all-tabs is
\* over and the export routine returned, the markdown was printed on the
\* standard output and no file exists that did not before.
C22_SingleDocumentGoesToStdout ==
    SingleDocumentNoOutput =>
        /\ PrintedOn("stdout", "content")
        /\ files = <<>>

ExportRoutines ==
    {"export_spreadsheet_as_csv", "export_all_tabs", "export_google_doc_as_markdown"}
Invoked == {performed[k].op : k \in 1..Len(performed)} \cap ExportRoutines
TimesInvoked ==
    Cardinality({k \in 1..Len(performed) : performed[k].op \in ExportRoutines})

\* C24: when cmd_export is over and had the file's metadata, it has invoked
\* the CSV export and nothing else for a spreadsheet, with or without
\* --all-tabs; export_all_tabs and nothing else for a document with
\* --all-tabs; the single markdown export and nothing else for a document
\* without it; each once. For any other type, and for none, it invoked no
\* export routine, no file exists and it returned 1. The export of the sheets
\* runs for a spreadsheet only.
C24_OneRoutineByMimeType ==
    /\ pc # "idle" => Get(file_meta, "mimeType", <<>>) = GoogleSpreadsheet
    /\ (AtExit /\ args.command = "cmd_export" /\ Succeeded("get_file_metadata")) =>
          LET mime == Get(file_meta, "mimeType", <<>>)
          IN  /\ TimesInvoked <= 1
              /\ mime = GoogleSpreadsheet => Invoked = {"export_spreadsheet_as_csv"}
              /\ (mime = GoogleDocument /\ args.all_tabs) => Invoked = {"export_all_tabs"}
              /\ (mime = GoogleDocument /\ ~args.all_tabs)
                    => Invoked = {"export_google_doc_as_markdown"}
              /\ mime \notin {GoogleSpreadsheet, GoogleDocument} =>
                    /\ Invoked = {}
                    /\ pc = "idle"
                    /\ files = <<>>
                    /\ Exit(1)

\* A spreadsheet exported with --all-tabs went through the CSV export.
C24_Witness ==
    /\ AtExit /\ args.command = "cmd_export" /\ args.all_tabs
    /\ Get(file_meta, "mimeType", <<>>) = GoogleSpreadsheet
    /\ Invoked = {"export_spreadsheet_as_csv"}
    /\ Len(exported_files) = 2
    /\ Exit(0)

ExportOfSpreadsheet ==
    /\ AtExit /\ args.command = "cmd_export"
    /\ Get(file_meta, "mimeType", <<>>) = GoogleSpreadsheet
ExportOfAllTabs ==
    /\ AtExit /\ args.command = "cmd_export" /\ args.all_tabs
    /\ Get(file_meta, "mimeType", <<>>) = GoogleDocument

\* The sheets were enumerated: the loop over them began.
SheetsEnumerated == idx >= 1

ReportedSuccess ==
    /\ printed # <<>>
    /\ printed[Len(printed)].stream = "stderr"
    /\ printed[Len(printed)].text = "Successfully exported"

\* C28 as stated: once the file metadata, the spreadsheet metadata and the
\* enumeration of the sheets or of the tabs have succeeded, cmd_export
\* returns 0 and reports success.
C28_ExitZeroOnceEnumerated ==
    /\ (ExportOfSpreadsheet /\ SheetsEnumerated) => Exit(0) /\ ReportedSuccess
    /\ (ExportOfAllTabs /\ Succeeded("list_document_tabs"))
          => Exit(0) /\ ReportedSuccess

\* C28, amended: once the file metadata, the spreadsheet metadata, the output
\* directory and the enumeration of the sheets have succeeded, or for a
\* document the enumeration of the tabs, the second retrieval of the document
\* and the output directory, cmd_export returns 0 and reports success,
\* however many sheets or tabs failed, and also when none was exported.
C28_ExitZeroOnceSetUp ==
    /\ (ExportOfSpreadsheet /\ SheetsEnumerated) =>
          /\ Exit(0) /\ ReportedSuccess
          /\ printed[Len(printed)].about = exported_files
    /\ (ExportOfAllTabs /\ Succeeded("list_document_tabs")
          /\ Succeeded("get_document_details") /\ Succeeded("mkdir")) =>
          /\ Exit(0) /\ ReportedSuccess
          /\ Failed("export_tab_as_markdown") => ~Failed("export_all_tabs")

\* Both sheets of a spreadsheet failed, and the export returned 0 with an
\* empty list.
C28_Witness ==
    /\ ExportOfSpreadsheet /\ SheetsEnumerated
    /\ Len(history) = 2
    /\ \A k \in 1..Len(history) : ~history[k].succeeded
    /\ exported_files = <<>>
    /\ Exit(0) /\ ReportedSuccess

(***************************************************************************)
(* The time export_sheet_as_csv has slept, under SpecSheet.                *)
(***************************************************************************)
RECURSIVE TotalSlept(_)
TotalSlept(l) ==
    IF l = <<>> THEN 0
    ELSE (IF Head(l).ev = "sleep" THEN Head(l).secs ELSE 0) + TotalSlept(Tail(l))

\* Every request of the call was answered in the way `is`, and there were
\* max_retries of them.
AllAttemptsWere(is(_)) ==
    /\ Len(Requests(log)) = max_retries
    /\ \A k \in 1..Len(log) : log[k].ev = "request" => is(log[k].outcome)

GaveUp ==
    /\ pc = "sheet_done"
    /\ sheet_ret # None /\ sheet_ret.kind = "raised"
    /\ sheet_ret.error.exc = "Exception"
    /\ "attempts" \in DOMAIN sheet_ret.error

\* C29: when export_sheet_as_csv gives up after max_retries consecutive 429
\* responses it has slept after every attempt, the last included,
\* 2^max_retries - 1 seconds in all (31 for the default of 5); after
\* max_retries consecutive HttpErrors it has slept 2^(max_retries - 1) - 1
\* seconds (15 for the default), and its last log entry is the request, with
\* no sleep after it.
C29_TotalSleepByFailureKind ==
    /\ (GaveUp /\ AllAttemptsWere(Is429)) =>
          /\ TotalSlept(log) = 2 ^ max_retries - 1
          /\ max_retries >= 1 => log[Len(log)].ev = "sleep"
          /\ Len(log) = 2 * max_retries
    /\ (GaveUp /\ AllAttemptsWere(IsHttpError) /\ max_retries >= 1) =>
          /\ TotalSlept(log) = 2 ^ (max_retries - 1) - 1
          /\ log[Len(log)].ev = "request"
          /\ Len(log) = 2 * max_retries - 1

\* The default of five attempts, all answered 429: 31 seconds slept.
C29_Witness ==
    /\ GaveUp /\ AllAttemptsWere(Is429)
    /\ max_retries = DefaultMaxRetries
    /\ TotalSlept(log) = 2 ^ DefaultMaxRetries - 1
    /\ log[Len(log)] = [ev |-> "sleep", secs |-> 2 ^ (DefaultMaxRetries - 1),
                        why |-> "backoff"]

(***************************************************************************)
(* The paths export_spreadsheet_as_csv writes, under SpecBatch.            *)
(***************************************************************************)
\* C27: within one run of export_spreadsheet_as_csv, no two sheets that were
\* exported are written to the same path: the list returned has no path
\* twice, and each exported sheet has a file of its own.
C27_NoTwoSheetsShareAPath ==
    (pc = "batch_done" /\ batch_ret.kind = "returned") =>
        /\ \A j, k \in 1..Len(exported_files) :
              j # k => exported_files[j] # exported_files[k]
        /\ Cardinality(DOMAIN files) = Len(exported_files)

(***************************************************************************)
(* Where export_spreadsheet_as_csv puts its files, under SpecName.         *)
(***************************************************************************)
\* The segments of a path between its slashes.
RECURSIVE Segments(_, _)
Segments(path, segment) ==
    IF path = <<>> THEN <<segment>>
    ELSE IF Head(path) = "/" THEN <<segment>> \o Segments(Tail(path), <<>>)
    ELSE Segments(Tail(path), Append(segment, Head(path)))

\* The directories a list of segments leads through, a segment ".." leading
\* back to the parent.
RECURSIVE Resolved(_, _)
Resolved(done, rest) ==
    IF rest = <<>> THEN done
    ELSE IF Head(rest) = <<".", ".">>
    THEN Resolved(IF done = <<>> THEN <<>> ELSE SubSeq(done, 1, Len(done) - 1),
                  Tail(rest))
    ELSE Resolved(Append(done, Head(rest)), Tail(rest))

Location(path) == Resolved(<<>>, Segments(path, <<>>))

\* C25: whatever the spreadsheet's and the sheet's title, the file of a sheet
\* lies inside the base output directory, below it and not in its parent or
\* elsewhere.
C25_SheetFilesStayInsideBase ==
    (path_segment # None /\ path_segment.site = "spreadsheet directory") =>
        LET at == Location(path_segment.file)
            base == Location(output_dir)
        IN  /\ Len(at) > Len(base)
            /\ SubSeq(at, 1, Len(base)) = base

=============================================================================
